---- MODULE Spec2Model ----
(***************************************************************************)
(* Asset lifecycle coordinator of RAPTOR (asset_management): the metadata  *)
(* store (commit_history, users, audit_log), the lakeFS object store       *)
(* (branch heads and immutable commits), the vector mirror, and the        *)
(* coordinator calls of AssetManager, each split at the points where the   *)
(* coroutine awaits the metadata store, the mirror or asyncio.gather.      *)
(* The lakeFS client is synchronous, so every object-store call runs       *)
(* without interleaving.                                                   *)
(***************************************************************************)
EXTENDS Integers, Sequences, FiniteSets, TLC

\* ---------------------------------------------------------------- bounds
\* Coordinator calls started in one behaviour of Spec (interleaved calls).
MaxCalls == 3
\* Coordinator calls started in one behaviour of SeqSpec (one call at a time).
MaxSeqCalls == 3
\* Store failures (object store, metadata write, mirror) in one behaviour.
MaxFaults == 1

\* ------------------------------------------------------------- constants
\* Default archive_ttl / destroy_ttl of upload_files, in days.
DefaultTTL == 30

Procs == {"p1", "p2"}
Usernames == {"alice", "bob"}
Branches == {"alice_space", "bob_space"}
Contents == {"P", "Q"}
PrimaryNames == {"a.txt"}
AssocNames == {"x.txt"}
Permissions == {"upload", "download", "list", "archive", "destroy", "admin"}
Ops == {"upload", "add", "retrieve", "archive", "destroy", "list"}

\* The user name the scheduler jobs pass to archive and destroy, and the
\* branch create_admin_user gives a user of that name.
SchedulerUser == "admin"
AllUsers == Usernames \cup {SchedulerUser}
AllBranches == Branches \cup {"admin_space"}
\* Every file name some specification uploads.
AllPrimaryNames == PrimaryNames \cup {"b.txt", "c.bin", "ab.txt"}
AllAssocNames == AssocNames \cup {"y.txt", "z.txt", "a.txt.sig", ".."}

\* Python None / SQL NULL where a version id is expected.
None == 0
\* No object at a key.
NoObj == "absent"
\* In place of a version id: the task raised, and gather(return_exceptions=True)
\* put the exception object among the results.
Raised == -1

\* ----------------------------------------------------------- file naming
\* asset_path = base_path / stem(primary_filename); the media class of a
\* .txt file is "document", that of a .bin file "other" (MediaType.OTHER).
AssetPathOf(name) ==
  CASE name = "a.txt" -> "document/a"
    [] name = "b.txt" -> "document/b"
    [] name = "c.bin" -> "other/c"
    [] name = "ab.txt" -> "document/ab"
    [] OTHER -> "other/unknown"

AssetPaths == {AssetPathOf(n) : n \in PrimaryNames}
FileNames == PrimaryNames \cup AssocNames
AllAssetPaths == {AssetPathOf(n) : n \in AllPrimaryNames}

\* AssetManager._sanitize_filename raises 400 for these names.
SanitizeRejects(name) == name \in {"", ".", ".."}

\* The object keys written: asset_path/primary_filename of every primary, and
\* the associated files, which are uploaded next to the primaries of
\* PrimaryNames only.
Keys ==
  {<<AssetPathOf(n), n>> : n \in AllPrimaryNames}
    \cup (AssetPaths \X {n \in AllAssocNames : ~SanitizeRejects(n)})

\* str.startswith on asset paths: pairs <<a, b>> with a a proper prefix of b.
ProperPrefixPairs == {<<"document/a", "document/ab">>}
StartsWith(path, prefix) == path = prefix \/ <<prefix, path>> \in ProperPrefixPairs

\* `primary_file not in o.path`: pairs <<a, b>> with a a proper substring of
\* the file name b.
ProperSubstringPairs == {<<"a.txt", "a.txt.sig">>, <<"b.txt", "ab.txt">>}
ContainsName(key, primary) ==
  key[2] = primary \/ <<primary, key[2]>> \in ProperSubstringPairs

\* First path segment -> vector collection (file_type_to_collection).
MediaClass(path) ==
  CASE path \in {"document/a", "document/b", "document/ab"} -> "document"
    [] OTHER -> "other"
HasCollection(path) == MediaClass(path) \in {"document", "audio", "video", "image"}

\* Content checksum reported by the object store (a strong hash: injective).
Checksum(data) == <<"sum", data>>

\* ------------------------------------------------------------- the state
VARIABLES
  users,    \* users table: username -> [exists, branch, permissions]
  rows,     \* commit_history: set of metadata rows
  audit,    \* audit_log: sequence of rows in id order
  head,     \* object store: branch -> key -> content at the branch head
  commits,  \* object store: commit id -> [branch, tree]
  mirror,   \* vector mirror: set of [asset_path, version_id, branch, status]
  now,      \* clock; also the number of calls started
  faults,   \* store failures so far
  pc,       \* per coroutine: where it is suspended
  call,     \* per coroutine: the arguments of its call
  loc,      \* per coroutine: its local variables
  last,     \* per coroutine: its previous call, when that was an upload that returned a record
  job,      \* the scheduler's auto_archive job
  hist,     \* the calls that returned, in order (kept by MergeSpec only)
  tokens,   \* access tokens issued by POST /token: [username, branch, permissions]
  tasks     \* per coroutine: the tasks of its asyncio.gather (kept by GatherSpec only)

stores == <<rows, audit, head, commits, mirror>>
vars == <<users, rows, audit, head, commits, mirror, now, faults, pc, call, loc, last,
          job, hist, tokens, tasks>>

\* --------------------------------------------------------------- records
NoRow ==
  [asset_path |-> "", version_id |-> None, primary_filename |-> "",
   associated_filenames |-> <<>>, upload_date |-> 0, archive_date |-> 0,
   destroy_date |-> 0, branch |-> "", status |-> "none", checksum |-> <<"sum", "">>]

NoCall ==
  [op |-> "none", user |-> "", branch |-> "", name |-> "", data |-> "",
   assoc |-> <<>>, path |-> "", version |-> None]

NoLoc ==
  [meta |-> NoRow, latest |-> NoRow, version |-> None, checksum |-> <<"sum", "">>,
   upload_time |-> 0, results |-> <<>>, i |-> 1, pend |-> <<>>, after |-> "done",
   status |-> 0, error |-> "", ret |-> NoRow, content |-> "", nlogs |-> 0,
   changed |-> "", head_deleted |-> FALSE, store_failed |-> FALSE,
   mirror_failed |-> FALSE, lookups |-> 0, dropped |-> 0, polls |-> 0]

\* A run of auto_archive: the date it was given, the rows it selected (due)
\* and those it has no task for yet (todo), the coroutines of its running
\* tasks, the rows its tasks returned (archived), the clock and the rows when
\* it started, whether no request was in flight then, whether the cron
\* trigger started it, and the wall-clock time of the trigger.
NoRun ==
  [date |-> 0, due |-> {}, todo |-> {}, running |-> {}, archived |-> {}, at |-> 0,
   before |-> {}, quiet |-> FALSE, cron |-> FALSE, time |-> 0]

\* The scheduler job before its first run: its position, the number of runs
\* started, this run and the run before it.
NoJob == [pc |-> "idle", runs |-> 0, run |-> NoRun, prev |-> NoRun]

\* What hist keeps of a call that returned.
Summary(c, l, fresh) ==
  [op |-> c.op, path |-> c.path, assoc |-> c.assoc, status |-> l.status,
   version |-> l.ret.version_id, results |-> l.results, lookups |-> l.lookups,
   dropped |-> l.dropped, fresh |-> fresh]

\* What a finished call leaves behind: its outcome and what its associated
\* uploads answered, none of its other working values.
Outcome(l) ==
  [NoLoc EXCEPT !.status = l.status, !.error = l.error, !.ret = l.ret,
                !.content = l.content, !.nlogs = l.nlogs, !.changed = l.changed,
                !.head_deleted = l.head_deleted, !.store_failed = l.store_failed,
                !.mirror_failed = l.mirror_failed, !.dropped = l.dropped,
                !.results = l.results, !.lookups = l.lookups]

SameKey(r, path, version, branch) ==
  r.asset_path = path /\ r.version_id = version /\ r.branch = branch

\* ---------------------------------------------------------- object store
EmptyTree == [k \in Keys |-> NoObj]

\* ObjectStore.upload_file: put the object at the head and commit; lakeFS
\* refuses a commit without changes.
UploadNoChange(branch, key, data) == head[branch][key] = data

TreeAfterUpload(branch, key, data) == [head[branch] EXCEPT ![key] = data]

\* The snapshot recorded by the commit of an upload.
UploadCommit_Stale(branch, key, data) == [branch |-> branch, tree |-> head[branch]]
UploadCommit(branch, key, data) ==
  [branch |-> branch, tree |-> TreeAfterUpload(branch, key, data)]

\* ObjectStore.get_file at a commit: the content, or NoObj.
GetFile(key, version) ==
  IF version \in 1..Len(commits) /\ key \in Keys
    THEN commits[version].tree[key]
    ELSE NoObj

\* ObjectStore.delete_associated_files: the keys it deletes from a tree.
PurgeKeys(tree, prefix, primary) ==
  {k \in Keys : tree[k] # NoObj /\ StartsWith(k[1], prefix) /\ ~ContainsName(k, primary)}

TreeWithout(tree, ks) == [k \in Keys |-> IF k \in ks THEN NoObj ELSE tree[k]]

\* ------------------------------------------------------- metadata store
\* Database.save_metadata: INSERT ... ON DUPLICATE KEY UPDATE.
SaveMetadata_InsertOnly(rs, m) == rs \cup {m}
SaveMetadata(rs, m) ==
  {r \in rs : ~SameKey(r, m.asset_path, m.version_id, m.branch)} \cup {m}

\* Database.get_asset_by_path_and_version: the rows fetchone() may return.
GetAsset(path, version, branch) ==
  {r \in rows : SameKey(r, path, version, branch)}

\* Database.get_latest_active_asset: ORDER BY upload_date DESC LIMIT 1.
LatestActive_Oldest(path, branch) ==
  LET act == {r \in rows : r.asset_path = path /\ r.branch = branch /\ r.status = "active"}
  IN {r \in act : \A s \in act : r.upload_date <= s.upload_date}
LatestActive(path, branch) ==
  LET act == {r \in rows : r.asset_path = path /\ r.branch = branch /\ r.status = "active"}
  IN {r \in act : \A s \in act : s.upload_date <= r.upload_date}

\* Database.get_head_version: the latest row whatever its status.
HeadVersions(path, branch) ==
  LET all == {r \in rows : r.asset_path = path /\ r.branch = branch}
  IN {r.version_id : r \in {x \in all : \A s \in all : s.upload_date <= x.upload_date}}

\* Database.update_status.
UpdateStatus(rs, path, version, status, branch) ==
  {IF SameKey(r, path, version, branch) THEN [r EXCEPT !.status = status] ELSE r : r \in rs}

\* Database.delete_metadata: the row, then its audit rows.
DeleteRows(rs, path, version, branch) ==
  {r \in rs : ~SameKey(r, path, version, branch)}

DeleteAudit_Keep(log, path, version, branch) == log
DeleteAudit(log, path, version, branch) ==
  SelectSeq(log, LAMBDA a : ~SameKey(a, path, version, branch))

\* Database.is_primary_file_changed: the outcomes LIMIT 1 may produce.
IsPrimaryFileChanged(checksum, path, branch) ==
  LET hit == {r \in rows : r.checksum = checksum /\ r.branch = branch /\ r.status = "active"}
  IN IF hit = {} THEN {"new"}
     ELSE {IF r.asset_path = path THEN "same_path" ELSE "other_path" : r \in hit}

\* Database.log_access: one audit row.
AuditRow(u, path, version, branch, operation, success, details) ==
  [username |-> u, asset_path |-> path, version_id |-> version, branch |-> branch,
   operation |-> operation, timestamp |-> now, success |-> success, details |-> details]

\* --------------------------------------------------------- vector mirror
MirrorMatch(e, path, version) == e.asset_path = path /\ e.version_id = version

\* VectorStore.archive_metadata: set_payload on the matching points.
MirrorArchive(mr, path, version, branch) ==
  {IF MirrorMatch(e, path, version) THEN [e EXCEPT !.status = "archived"] ELSE e : e \in mr}

\* VectorStore.delete_metadata: delete the matching points.
MirrorDelete_Nothing(mr, path, version, branch) == mr
MirrorDelete(mr, path, version, branch) ==
  {e \in mr : ~MirrorMatch(e, path, version)}

\* ------------------------------------------------------------ permission
\* AssetManager._check_permission: 0 when allowed, else 403.
CheckPermission_AdminFirst(username, branch, required) ==
  LET user == users[username]
  IN IF ~user.exists THEN 403
     ELSE IF "admin" \in user.permissions THEN 0
     ELSE IF branch # user.branch THEN 403
     ELSE IF required \in user.permissions THEN 0
     ELSE 403
CheckPermission(username, branch, required) ==
  LET user == users[username]
  IN IF ~user.exists THEN 403
     ELSE IF branch # user.branch THEN 403
     ELSE IF "admin" \in user.permissions THEN 0
     ELSE IF required \in user.permissions THEN 0
     ELSE 403

RequiredPermission(op) ==
  CASE op = "upload" -> "upload"
    [] op = "add" -> "upload"
    [] op = "retrieve" -> "download"
    [] op = "archive" -> "archive"
    [] op = "destroy" -> "destroy"
    [] op = "list" -> "list"

\* ------------------------------------------------------ Python dict merge
DictPut(d, k, v) ==
  IF \E i \in DOMAIN d : d[i][1] = k
    THEN [i \in DOMAIN d |-> IF d[i][1] = k THEN <<k, v>> ELSE d[i]]
    ELSE Append(d, <<k, v>>)

RECURSIVE DictUpdate(_, _)
DictUpdate(d, pairs) ==
  IF pairs = <<>> THEN d
  ELSE DictUpdate(DictPut(d, Head(pairs)[1], Head(pairs)[2]), Tail(pairs))

\* dict(old); .update(dict(new)); back to a list of pairs.
MergeAssociated_NewOnly(old, new) == DictUpdate(<<>>, new)
MergeAssociated(old, new) == DictUpdate(DictUpdate(<<>>, old), DictUpdate(<<>>, new))

\* dict(pairs).get(name)
DictGet(pairs, name) ==
  LET d == DictUpdate(<<>>, pairs)
  IN IF \E i \in DOMAIN d : d[i][1] = name
       THEN d[CHOOSE i \in DOMAIN d : d[i][1] = name][2]
       ELSE None

\* ---------------------------------------------------------- call inputs
AssocLists == {<<>>} \cup {<< <<d, n>> >> : d \in Contents, n \in AssocNames}

VersionIds == 1..Len(commits)

CallInputs ==
  {[op |-> "upload", user |-> u, branch |-> b, name |-> n, data |-> d, assoc |-> a,
    path |-> AssetPathOf(n), version |-> None] :
      u \in Usernames, b \in Branches, n \in PrimaryNames, d \in Contents, a \in AssocLists}
  \cup
  {[op |-> "add", user |-> u, branch |-> b, name |-> "", data |-> "", assoc |-> a,
    path |-> q, version |-> v] :
      u \in Usernames, b \in Branches, a \in AssocLists \ {<<>>}, q \in AssetPaths,
      v \in {None} \cup VersionIds}
  \cup
  {[op |-> o, user |-> u, branch |-> b, name |-> "", data |-> "", assoc |-> <<>>,
    path |-> q, version |-> v] :
      o \in {"retrieve", "archive", "destroy"}, u \in Usernames, b \in Branches,
      q \in AssetPaths, v \in VersionIds}
  \cup
  {[op |-> "list", user |-> u, branch |-> b, name |-> n, data |-> "", assoc |-> <<>>,
    path |-> q, version |-> None] :
      u \in Usernames, b \in Branches, n \in PrimaryNames, q \in AssetPaths}

FirstStep_AssocFirst(op) ==
  CASE op = "upload" -> "u_assoc"
    [] op = "add" -> "a_read"
    [] op = "retrieve" -> "r_read"
    [] op = "archive" -> "ar_read"
    [] op = "destroy" -> "d_read"
    [] op = "list" -> "l_read"
FirstStep(op) ==
  CASE op = "upload" -> "u_primary"
    [] op = "add" -> "a_read"
    [] op = "retrieve" -> "r_read"
    [] op = "archive" -> "ar_read"
    [] op = "destroy" -> "d_read"
    [] op = "list" -> "l_read"

\* ---------------------------------------------------------------- Init
\* The stores are empty. alice registered herself (create_admin_user: admin
\* of alice_space); bob was created by Database.create_user on the branch
\* bob_space with the download permission only; nobody is called "admin".
InitUsers ==
  [u \in AllUsers |->
     IF u = "alice"
       THEN [exists |-> TRUE, branch |-> "alice_space", permissions |-> {"admin"}]
     ELSE IF u = "bob"
       THEN [exists |-> TRUE, branch |-> "bob_space", permissions |-> {"download"}]
     ELSE [exists |-> FALSE, branch |-> "", permissions |-> {}]]

\* Somebody registered under the name "admin" as well (create_admin_user:
\* admin of admin_space).
InitUsersWithAdmin ==
  [InitUsers EXCEPT ![SchedulerUser] =
     [exists |-> TRUE, branch |-> "admin_space", permissions |-> {"admin"}]]

InitStores ==
  /\ rows = {}
  /\ audit = <<>>
  /\ head = [b \in AllBranches |-> EmptyTree]
  /\ commits = <<>>
  /\ mirror = {}
  /\ now = 0
  /\ pc = [p \in Procs |-> "idle"]
  /\ call = [p \in Procs |-> NoCall]
  /\ loc = [p \in Procs |-> NoLoc]
  /\ last = [p \in Procs |-> NoCall]
  /\ job = NoJob
  /\ hist = <<>>
  /\ tokens = {}
  /\ tasks = [p \in Procs |-> <<>>]

InitState == users = InitUsers /\ InitStores

\* The stores may fail MaxFaults times.
Init == InitState /\ faults = 0

\* The stores never fail.
InitAvailable == InitState /\ faults = MaxFaults

\* ------------------------------------------------------- shared endings
\* The call raises without writing an audit row.
Raise(p, status, error) ==
  /\ pc' = [pc EXCEPT ![p] = "done"]
  /\ loc' = [loc EXCEPT ![p] = Outcome([loc[p] EXCEPT !.status = status, !.error = error])]

\* The call writes a failure audit row and then raises.
RaiseLogged(p, status, error, operation) ==
  /\ pc' = [pc EXCEPT ![p] = "log"]
  /\ loc' = [loc EXCEPT ![p].status = status, ![p].error = error, ![p].after = "done",
                        ![p].pend = <<AuditRow(call[p].user, call[p].path, call[p].version,
                                               call[p].branch, operation, FALSE, error)>>]

\* ------------------------------------------------- entry: _check_permission
\* A request arrives on a coroutine that is free (its previous call, if any,
\* has returned). A refused call keeps only who called what on which branch.
StartCallFrom(p, inputs) ==
  /\ pc[p] \in {"idle", "done"}
  /\ \E c \in inputs :
       IF CheckPermission(c.user, c.branch, RequiredPermission(c.op)) # 0
         THEN /\ call' = [call EXCEPT ![p] = [NoCall EXCEPT !.op = c.op, !.user = c.user,
                                                            !.branch = c.branch]]
              /\ pc' = [pc EXCEPT ![p] = "done"]
              /\ loc' = [loc EXCEPT ![p] = [NoLoc EXCEPT !.status = 403, !.error = "Forbidden"]]
         ELSE /\ call' = [call EXCEPT ![p] = c]
              /\ pc' = [pc EXCEPT ![p] = FirstStep(c.op)]
              /\ loc' = [loc EXCEPT ![p] = [NoLoc EXCEPT !.upload_time = now + 1]]
  /\ last' = [last EXCEPT ![p] =
                IF call[p].op = "upload" /\ loc[p].status = 200
                  THEN [call[p] EXCEPT !.version = loc[p].ret.version_id]
                  ELSE NoCall]
  /\ now' = now + 1
  /\ UNCHANGED <<tasks, tokens, users, rows, audit, head, commits, mirror, faults, job>>

StartCall(p) == StartCallFrom(p, CallInputs) /\ UNCHANGED hist

\* Database.log_access: the next pending audit row of the call.
LogAccess(p) ==
  /\ pc[p] = "log"
  /\ audit' = Append(audit, [Head(loc[p].pend) EXCEPT !.timestamp = now])
  /\ LET l == [loc[p] EXCEPT !.pend = Tail(loc[p].pend), !.nlogs = loc[p].nlogs + 1]
         next == IF Len(loc[p].pend) = 1 THEN loc[p].after ELSE "log"
     IN /\ loc' = [loc EXCEPT ![p] = IF next = "done" THEN Outcome(l) ELSE l]
        /\ pc' = [pc EXCEPT ![p] = next]
  /\ UNCHANGED <<tasks, tokens, users, rows, head, commits, mirror, now, faults, call, last, job, hist>>

\* ----------------------------------------------------------- upload_files
\* object_store.upload_file(primary) and, when it commits,
\* object_store.delete_associated_files.
UploadPrimary(p) ==
  /\ pc[p] = "u_primary"
  /\ LET c == call[p]
         key == <<c.path, c.name>>
         tree1 == TreeAfterUpload(c.branch, key, c.data)
         commits1 == Append(commits, UploadCommit(c.branch, key, c.data))
         purge == PurgeKeys(tree1, c.path, c.name)
         tree2 == TreeWithout(tree1, purge)
     IN \/ /\ faults < MaxFaults
           /\ faults' = faults + 1
           /\ Raise(p, 500, "Failed to upload primary file")
           /\ UNCHANGED <<head, commits>>
        \/ /\ UploadNoChange(c.branch, key, c.data)
           /\ pc' = [pc EXCEPT ![p] = "u_latest"]
           /\ UNCHANGED <<head, commits, loc, faults>>
        \/ /\ ~UploadNoChange(c.branch, key, c.data)
           /\ head' = [head EXCEPT ![c.branch] = tree2]
           /\ commits' = IF purge = {} THEN commits1
                         ELSE Append(commits1, [branch |-> c.branch, tree |-> tree2])
           /\ loc' = [loc EXCEPT ![p].version = Len(commits1),
                                 ![p].checksum = Checksum(c.data),
                                 ![p].latest = NoRow]
           /\ pc' = [pc EXCEPT ![p] = "u_assoc"]
           /\ UNCHANGED faults
  /\ UNCHANGED <<tasks, tokens, users, rows, audit, mirror, now, call, last, job, hist>>

\* NoChange: db.get_latest_active_asset, then latest_metadata.version_id.
UploadLatest(p) ==
  /\ pc[p] = "u_latest"
  /\ LET cands == LatestActive(call[p].path, call[p].branch)
     IN IF cands = {}
          THEN Raise(p, 500, "AttributeError")
          ELSE \E m \in cands :
                 /\ loc' = [loc EXCEPT ![p].latest = m, ![p].version = m.version_id,
                                       ![p].checksum = m.checksum]
                 /\ pc' = [pc EXCEPT ![p] = "u_assoc"]
  /\ UNCHANGED <<tasks, tokens, users, rows, audit, head, commits, mirror, now, faults, call, last, job, hist>>

\* An exception that leaves _upload_assoc_task: upload_files gathers with
\* return_exceptions=True and keeps the exception object among the results;
\* add_associated_files gathers with return_exceptions=False and raises it.
TaskRaises(p, status, error) ==
  IF pc[p] \in {"u_assoc", "u_lookup"}
    THEN /\ loc' = [loc EXCEPT ![p].i = loc[p].i + 1, ![p].dropped = loc[p].dropped + 1,
                     ![p].results = Append(loc[p].results,
                                           <<call[p].assoc[loc[p].i][2], Raised>>)]
         /\ pc' = [pc EXCEPT ![p] = "u_assoc"]
    ELSE Raise(p, status, error)

\* _upload_assoc_task: _sanitize_filename, then object_store.upload_file of
\* the next associated file.
AssocUpload(p) ==
  /\ pc[p] \in {"u_assoc", "a_assoc"}
  /\ loc[p].i <= Len(call[p].assoc)
  /\ LET c == call[p]
         file == c.assoc[loc[p].i]
         key == <<c.path, file[2]>>
     IN IF SanitizeRejects(file[2])
          THEN /\ TaskRaises(p, 400, "Invalid filename")
               /\ UNCHANGED <<head, commits, faults>>
          ELSE
        \/ /\ faults < MaxFaults
           /\ faults' = faults + 1
           /\ loc' = [loc EXCEPT ![p].i = loc[p].i + 1, ![p].dropped = loc[p].dropped + 1]
           /\ UNCHANGED <<head, commits, pc>>
        \/ /\ UploadNoChange(c.branch, key, file[1])
           /\ pc' = [pc EXCEPT ![p] = IF pc[p] = "u_assoc" THEN "u_lookup" ELSE "a_lookup"]
           /\ loc' = [loc EXCEPT ![p].lookups = loc[p].lookups + 1]
           /\ UNCHANGED <<head, commits, faults>>
        \/ /\ ~UploadNoChange(c.branch, key, file[1])
           /\ head' = [head EXCEPT ![c.branch] = TreeAfterUpload(c.branch, key, file[1])]
           /\ commits' = Append(commits, UploadCommit(c.branch, key, file[1]))
           /\ loc' = [loc EXCEPT ![p].i = loc[p].i + 1,
                                 ![p].results = Append(loc[p].results,
                                                       <<file[2], Len(commits) + 1>>)]
           /\ UNCHANGED <<pc, faults>>
  /\ UNCHANGED <<tasks, tokens, users, rows, audit, mirror, now, call, last, job, hist>>

\* _upload_assoc_task on NoChange: db.get_latest_active_asset and
\* associated_filenames.get(filename). The query runs inside the except
\* clause: when it fails, the exception leaves the task.
AssocLookup(p) ==
  /\ pc[p] \in {"u_lookup", "a_lookup"}
  /\ LET c == call[p]
         fname == c.assoc[loc[p].i][2]
         cands == LatestActive(c.path, c.branch)
         back == IF pc[p] = "u_lookup" THEN "u_assoc" ELSE "a_assoc"
     IN \/ /\ faults < MaxFaults
           /\ faults' = faults + 1
           /\ TaskRaises(p, 500, "Failed to read the latest active asset")
        \/ /\ UNCHANGED faults
           /\ pc' = [pc EXCEPT ![p] = back]
           /\ IF cands = {}
                THEN loc' = [loc EXCEPT ![p].i = loc[p].i + 1,
                                        ![p].dropped = loc[p].dropped + 1]
                ELSE \E m \in cands :
                       loc' = [loc EXCEPT ![p].i = loc[p].i + 1,
                                 ![p].results = Append(loc[p].results,
                                   <<fname, DictGet(m.associated_filenames, fname)>>)]
  /\ UNCHANGED <<tasks, tokens, users, rows, audit, head, commits, mirror, now, call, last, job, hist>>

\* upload_files(..., archive_ttl = 30, destroy_ttl = 30): the days given by
\* the call, or the default of the parameter.
ArchiveTtl(c) == IF "archive_ttl" \in DOMAIN c THEN c.archive_ttl ELSE DefaultTTL
DestroyTtl(c) == IF "destroy_ttl" \in DOMAIN c THEN c.destroy_ttl ELSE DefaultTTL

\* The AssetMetadata upload_files is about to save.
UploadMetadata(p) ==
  LET c == call[p]
      l == loc[p]
  IN IF l.latest = NoRow
       THEN [asset_path |-> c.path, version_id |-> l.version, primary_filename |-> c.name,
             associated_filenames |-> l.results, upload_date |-> l.upload_time,
             archive_date |-> l.upload_time + ArchiveTtl(c),
             destroy_date |-> l.upload_time + ArchiveTtl(c) + DestroyTtl(c),
             branch |-> c.branch, status |-> "active", checksum |-> l.checksum]
       ELSE [l.latest EXCEPT !.associated_filenames =
               MergeAssociated(l.latest.associated_filenames, l.results)]

\* Results the metadata cannot be built from: AssetMetadata(...) of a new
\* version validates List[Tuple[str, str]] and refuses an exception object
\* or a None version; dict(...) on the NoChange path refuses an exception
\* object.
BadResults(l) ==
  \E i \in DOMAIN l.results :
    \/ l.results[i][2] = Raised
    \/ l.latest = NoRow /\ l.results[i][2] = None

\* After the gather: build the metadata, db.is_primary_file_changed.
UploadChanged(p) ==
  /\ pc[p] = "u_assoc"
  /\ loc[p].i > Len(call[p].assoc)
  /\ IF BadResults(loc[p])
       THEN Raise(p, 500, "Invalid associated_filenames")
       ELSE /\ \E ch \in IsPrimaryFileChanged(loc[p].checksum, call[p].path,
                                                call[p].branch) :
                 loc' = [loc EXCEPT ![p].meta = UploadMetadata(p), ![p].changed = ch]
            /\ pc' = [pc EXCEPT ![p] = "u_save"]
  /\ UNCHANGED <<tasks, tokens, users, rows, audit, head, commits, mirror, now, faults, call, last, job, hist>>

\* db.save_metadata; then the success audit row is pending.
UploadSave(p) ==
  /\ pc[p] = "u_save"
  /\ \/ /\ faults < MaxFaults
        /\ faults' = faults + 1
        /\ Raise(p, 500, "Failed to save metadata")
        /\ UNCHANGED rows
     \/ /\ rows' = SaveMetadata(rows, loc[p].meta)
        /\ pc' = [pc EXCEPT ![p] = "log"]
        /\ loc' = [loc EXCEPT ![p].status = 200, ![p].ret = loc[p].meta, ![p].after = "done",
                              ![p].pend = <<AuditRow(call[p].user, call[p].path,
                                   loc[p].version, call[p].branch, "upload", TRUE, "")>>]
        /\ UNCHANGED faults
  /\ UNCHANGED <<tasks, tokens, users, audit, head, commits, mirror, now, call, last, job, hist>>

\* --------------------------------------------------- add_associated_files
\* The target record: the named version, else the latest active one.
AddTargets(p) ==
  IF call[p].version # None
    THEN GetAsset(call[p].path, call[p].version, call[p].branch)
    ELSE LatestActive(call[p].path, call[p].branch)

AddRead(p) ==
  /\ pc[p] = "a_read"
  /\ IF AddTargets(p) = {}
       THEN Raise(p, 404, "Asset not found")
       ELSE \E m \in AddTargets(p) :
              IF m.status # "active"
                THEN Raise(p, 400, "Target asset version is not active")
                ELSE /\ loc' = [loc EXCEPT ![p].meta = m, ![p].version = m.version_id]
                     /\ pc' = [pc EXCEPT ![p] = "a_assoc"]
  /\ UNCHANGED <<tasks, tokens, users, rows, audit, head, commits, mirror, now, faults, call, last, job, hist>>

\* `if not new_associated_files`: every task of the gather returned None.
AllUploadsFailed_Never(l) == FALSE
AllUploadsFailed(l) == l.results = <<>>

\* After the gather: merge into the record read earlier, db.save_metadata.
AddSave(p) ==
  /\ pc[p] = "a_assoc"
  /\ loc[p].i > Len(call[p].assoc)
  /\ LET merged == [loc[p].meta EXCEPT !.associated_filenames =
                      MergeAssociated(loc[p].meta.associated_filenames, loc[p].results)]
     IN IF AllUploadsFailed(loc[p])
          THEN /\ Raise(p, 500, "All associated file uploads failed")
               /\ UNCHANGED <<rows, faults>>
          ELSE \/ /\ faults < MaxFaults
                  /\ faults' = faults + 1
                  /\ Raise(p, 500, "Failed to update asset metadata in database")
                  /\ UNCHANGED rows
               \/ /\ rows' = SaveMetadata(rows, merged)
                  /\ pc' = [pc EXCEPT ![p] = "log"]
                  /\ loc' = [loc EXCEPT ![p].status = 200, ![p].ret = merged,
                                        ![p].meta = merged, ![p].after = "done",
                                        ![p].pend = <<AuditRow(call[p].user, call[p].path,
                                           merged.version_id, call[p].branch,
                                           "add_associated_files", TRUE, "")>>]
                  /\ UNCHANGED faults
  /\ UNCHANGED <<tasks, tokens, users, audit, head, commits, mirror, now, call, last, job, hist>>

\* ---------------------------------------------------------- retrieve_asset
\* fetch_file(metadata.primary_filename, metadata.version_id): the primary's
\* content at the record's version.
PrimaryContent(m) == GetFile(<<m.asset_path, m.primary_filename>>, m.version_id)

\* db.get_asset_by_path_and_version, then fetch_file of the primary at the
\* record's version (the associated files cannot fail the call).
RetrieveRead(p) ==
  /\ pc[p] = "r_read"
  /\ LET c == call[p]
         found == GetAsset(c.path, c.version, c.branch)
     IN IF found = {}
          THEN RaiseLogged(p, 404, "Asset not found", "retrieve")
          ELSE \E m \in found :
                 LET content == PrimaryContent(m)
                 IN IF content = NoObj
                      THEN RaiseLogged(p, 404, "Primary file not found", "retrieve")
                      ELSE /\ pc' = [pc EXCEPT ![p] = "log"]
                           /\ loc' = [loc EXCEPT ![p].status = 200, ![p].ret = m,
                                 ![p].content = content, ![p].after = "done",
                                 ![p].pend = <<AuditRow(c.user, c.path, c.version, c.branch,
                                                        "retrieve", TRUE, "")>>]
  /\ UNCHANGED <<tasks, tokens, users, rows, audit, head, commits, mirror, now, faults, call, last, job, hist>>

\* ------------------------------------------------------------------ archive
ArchivePrecondition_NotDestroyed(m) == m.status # "destroyed"
ArchivePrecondition(m) == m.status = "active"

ArchiveRead(p) ==
  /\ pc[p] = "ar_read"
  /\ LET c == call[p]
         found == GetAsset(c.path, c.version, c.branch)
     IN IF found = {}
          THEN RaiseLogged(p, 404, "Asset not found", "archive")
          ELSE \E m \in found :
                 IF ~ArchivePrecondition(m)
                   THEN RaiseLogged(p, 400, "Asset is not active", "archive")
                   ELSE /\ loc' = [loc EXCEPT ![p].meta = m]
                        /\ pc' = [pc EXCEPT ![p] = "ar_update"]
  /\ UNCHANGED <<tasks, tokens, users, rows, audit, head, commits, mirror, now, faults, call, last, job, hist>>

\* db.update_status(..., "archived", branch)
ArchiveUpdate(p) ==
  /\ pc[p] = "ar_update"
  /\ rows' = UpdateStatus(rows, call[p].path, call[p].version, "archived", call[p].branch)
  /\ pc' = [pc EXCEPT ![p] = "ar_mirror"]
  /\ UNCHANGED <<tasks, tokens, users, audit, head, commits, mirror, now, faults, call, loc, last, job, hist>>

\* try: await self.vector_store...(...) except Exception: logger.error(...).
\* Whether an exception of the mirror leaves archive or destroy.
MirrorErrorPropagates_Raise == TRUE
MirrorErrorPropagates == FALSE

\* vector_store.archive_metadata under try/except (it raises ValueError for a
\* media class without collection); the success audit row is pending
\* afterwards.
ArchiveMirror(p) ==
  /\ pc[p] = "ar_mirror"
  /\ LET c == call[p]
         goon(failed) ==
           /\ pc' = [pc EXCEPT ![p] = "log"]
           /\ loc' = [loc EXCEPT ![p].after = "ar_poll", ![p].mirror_failed = failed,
                         ![p].pend = <<AuditRow(c.user, c.path, c.version, c.branch,
                                                "archive", TRUE, "")>>]
         fail == IF MirrorErrorPropagates
                   THEN /\ pc' = [pc EXCEPT ![p] = "done"]
                        /\ loc' = [loc EXCEPT ![p] =
                             Outcome([loc[p] EXCEPT !.status = 500, !.mirror_failed = TRUE,
                                                    !.error = "Vector store failed"])]
                   ELSE goon(TRUE)
     IN IF ~HasCollection(c.path)
          THEN fail /\ UNCHANGED <<mirror, faults>>
          ELSE \/ /\ faults < MaxFaults
                  /\ faults' = faults + 1
                  /\ fail
                  /\ UNCHANGED mirror
               \/ /\ mirror' = MirrorArchive(mirror, c.path, c.version, c.branch)
                  /\ goon(FALSE)
                  /\ UNCHANGED faults
  /\ UNCHANGED <<tasks, tokens, users, rows, audit, head, commits, now, call, last, job, hist>>

\* while True: re-read the row until its status is "archived"; otherwise go
\* round again (polls: the parity of the rounds so far).
ArchivePoll(p) ==
  /\ pc[p] = "ar_poll"
  /\ LET found == GetAsset(call[p].path, call[p].version, call[p].branch)
     IN IF found = {}
          THEN Raise(p, 500, "AttributeError")
          ELSE \E m \in found :
                 IF m.status = "archived"
                   THEN /\ pc' = [pc EXCEPT ![p] = "done"]
                        /\ loc' = [loc EXCEPT ![p] =
                                     Outcome([loc[p] EXCEPT !.status = 200, !.ret = m])]
                   ELSE /\ loc' = [loc EXCEPT ![p].polls = 1 - loc[p].polls]
                        /\ UNCHANGED pc
  /\ UNCHANGED <<tasks, tokens, users, rows, audit, head, commits, mirror, now, faults, call, last, job, hist>>

\* ------------------------------------------------------------------ destroy
DestroyPrecondition(m) == m.status = "archived"

DestroyRead(p) ==
  /\ pc[p] = "d_read"
  /\ LET c == call[p]
         found == GetAsset(c.path, c.version, c.branch)
     IN IF found = {}
          THEN RaiseLogged(p, 404, "Asset not found", "destroy")
          ELSE \E m \in found :
                 IF ~DestroyPrecondition(m)
                   THEN RaiseLogged(p, 400, "Asset is not archived", "destroy")
                   ELSE /\ loc' = [loc EXCEPT ![p].meta = m]
                        /\ pc' = [pc EXCEPT ![p] = "d_head"]
  /\ UNCHANGED <<tasks, tokens, users, rows, audit, head, commits, mirror, now, faults, call, last, job, hist>>

\* The keys destroy deletes at the head: the primary, then each associated file.
DestroyKeys_PrimaryOnly(m) == <<<<m.asset_path, m.primary_filename>>>>
DestroyKeys(m) ==
  <<<<m.asset_path, m.primary_filename>>>> \o
  [i \in 1..Len(m.associated_filenames) |-> <<m.asset_path, m.associated_filenames[i][1]>>]

\* ObjectStore.delete_file per key: delete at the head and commit; a key that
\* is not there is ignored.
RECURSIVE DeleteFiles(_, _, _, _)
DeleteFiles(tree, cs, branch, keys) ==
  IF keys = <<>> THEN [tree |-> tree, commits |-> cs]
  ELSE LET k == Head(keys)
       IN IF k \in Keys /\ tree[k] # NoObj
            THEN LET t2 == [tree EXCEPT ![k] = NoObj]
                 IN DeleteFiles(t2, Append(cs, [branch |-> branch, tree |-> t2]),
                                branch, Tail(keys))
            ELSE DeleteFiles(tree, cs, branch, Tail(keys))

SeqWithout(s, i) == [j \in 1..(Len(s) - 1) |-> IF j < i THEN s[j] ELSE s[j + 1]]

\* The version destroy compares with the head version.
IsHead_Always(hv, m) == TRUE
IsHead(hv, m) == hv = m.version_id

\* db.get_head_version, then the deletions when the version is the head. A
\* failed delete_file is logged and skipped.
DestroyHead(p) ==
  /\ pc[p] = "d_head"
  /\ LET c == call[p]
         m == loc[p].meta
         hvs == IF HeadVersions(c.path, c.branch) = {} THEN {None}
                ELSE HeadVersions(c.path, c.branch)
     IN \E hv \in hvs :
          IF IsHead(hv, m)
            THEN \E f \in 0..Len(DestroyKeys(m)) :
                   LET keys == IF f = 0 THEN DestroyKeys(m) ELSE SeqWithout(DestroyKeys(m), f)
                       res == DeleteFiles(head[c.branch], commits, c.branch, keys)
                   IN /\ f # 0 => faults < MaxFaults
                      /\ faults' = IF f = 0 THEN faults ELSE faults + 1
                      /\ head' = [head EXCEPT ![c.branch] = res.tree]
                      /\ commits' = res.commits
                      /\ loc' = [loc EXCEPT ![p].head_deleted = TRUE,
                                            ![p].store_failed = (f # 0)]
            ELSE UNCHANGED <<head, commits, faults, loc>>
  /\ pc' = [pc EXCEPT ![p] = "d_delete"]
  /\ UNCHANGED <<tasks, tokens, users, rows, audit, mirror, now, call, last, job, hist>>

\* db.delete_metadata: the commit_history row and the audit rows of the key.
DestroyDelete(p) ==
  /\ pc[p] = "d_delete"
  /\ rows' = DeleteRows(rows, call[p].path, call[p].version, call[p].branch)
  /\ audit' = DeleteAudit(audit, call[p].path, call[p].version, call[p].branch)
  /\ pc' = [pc EXCEPT ![p] = "d_mirror"]
  /\ UNCHANGED <<tasks, tokens, users, head, commits, mirror, now, faults, call, loc, last, job, hist>>

\* vector_store.delete_metadata under try/except; the success audit row is
\* pending afterwards and the returned record says "destroyed".
DestroyMirror(p) ==
  /\ pc[p] = "d_mirror"
  /\ LET c == call[p]
         goon(failed) ==
           /\ pc' = [pc EXCEPT ![p] = "log"]
           /\ loc' = [loc EXCEPT ![p].status = 200, ![p].after = "done",
                        ![p].store_failed = (failed \/ loc[p].store_failed),
                        ![p].mirror_failed = failed,
                        ![p].ret = [loc[p].meta EXCEPT !.status = "destroyed"],
                        ![p].pend = <<AuditRow(c.user, c.path, c.version, c.branch,
                                               "destroy", TRUE, "")>>]
         fail == IF MirrorErrorPropagates
                   THEN /\ pc' = [pc EXCEPT ![p] = "done"]
                        /\ loc' = [loc EXCEPT ![p] =
                             Outcome([loc[p] EXCEPT !.status = 500, !.mirror_failed = TRUE,
                                                    !.error = "Vector store failed"])]
                   ELSE goon(TRUE)
     IN IF ~HasCollection(c.path)
          THEN fail /\ UNCHANGED <<mirror, faults>>
          ELSE \/ /\ faults < MaxFaults
                  /\ faults' = faults + 1
                  /\ fail
                  /\ UNCHANGED mirror
               \/ /\ mirror' = MirrorDelete(mirror, c.path, c.version, c.branch)
                  /\ goon(FALSE)
                  /\ UNCHANGED faults
  /\ UNCHANGED <<tasks, tokens, users, rows, audit, head, commits, now, call, last, job, hist>>

\* ------------------------------------------------------- list_file_versions
\* Database.get_versions_by_key: the active rows of the key.
VersionsByKey(path, name, branch) ==
  {r \in rows : r.asset_path = path /\ r.primary_filename = name
                /\ r.branch = branch /\ r.status = "active"}

\* db.get_versions_by_key, a presigned URL per version (a failure writes a
\* failure audit row for that version), then the success audit row.
ListRead(p) ==
  /\ pc[p] = "l_read"
  /\ LET c == call[p]
         infos == VersionsByKey(c.path, c.name, c.branch)
         ok == AuditRow(c.user, c.path, None, c.branch, "list", TRUE, "")
     IN \/ /\ faults < MaxFaults
           /\ \E info \in infos :
                loc' = [loc EXCEPT ![p].status = 200, ![p].after = "done",
                          ![p].pend = <<AuditRow(c.user, info.asset_path, info.version_id,
                                          c.branch, "list_version", FALSE, "presigned URL"),
                                        ok>>]
           /\ faults' = faults + 1
        \/ /\ loc' = [loc EXCEPT ![p].status = 200, ![p].after = "done", ![p].pend = <<ok>>]
           /\ UNCHANGED faults
  /\ pc' = [pc EXCEPT ![p] = "log"]
  /\ UNCHANGED <<tasks, tokens, users, rows, audit, head, commits, mirror, now, call, last, job, hist>>

\* ----------------------------------------------------- the indexing pipeline
\* VectorStore.save_or_update_metadata, called by the indexing pipeline once
\* for a stored record that has no point yet: insert one.
MirrorIndex ==
  \E m \in rows :
    /\ HasCollection(m.asset_path)
    /\ ~\E e \in mirror : MirrorMatch(e, m.asset_path, m.version_id) /\ e.branch = m.branch
    /\ mirror' = mirror \cup {[asset_path |-> m.asset_path, version_id |-> m.version_id,
                                branch |-> m.branch, status |-> m.status]}
    /\ UNCHANGED <<tasks, tokens, users, rows, audit, head, commits, now, faults, pc, call, loc, last, job, hist>>

\* ----------------------------------------------------------- specifications
Step(p) ==
  \/ LogAccess(p)
  \/ UploadPrimary(p)
  \/ UploadLatest(p)
  \/ AssocUpload(p)
  \/ AssocLookup(p)
  \/ UploadChanged(p)
  \/ UploadSave(p)
  \/ AddRead(p)
  \/ AddSave(p)
  \/ RetrieveRead(p)
  \/ ArchiveRead(p)
  \/ ArchiveUpdate(p)
  \/ ArchiveMirror(p)
  \/ ArchivePoll(p)
  \/ DestroyRead(p)
  \/ DestroyHead(p)
  \/ DestroyDelete(p)
  \/ DestroyMirror(p)
  \/ ListRead(p)

\* A request takes the first free coroutine.
FirstFree(p) == p = "p1" \/ pc["p1"] \notin {"idle", "done"}

\* Calls of several requests interleave at their await points.
Next ==
  \/ \E p \in Procs : (now < MaxCalls /\ FirstFree(p) /\ StartCall(p)) \/ Step(p)
  \/ MirrorIndex

\* Interleaved calls, the stores available.
Spec == InitAvailable /\ [][Next]_vars

\* One call at a time, all on one coroutine; the stores may fail.
SeqNext ==
  \/ \E p \in {"p1"} : (now < MaxSeqCalls /\ StartCall(p)) \/ Step(p)
  \/ MirrorIndex

SeqSpec == Init /\ [][SeqNext]_vars

\* ------------------------------------------------------------------ claims
ActiveRows(path, branch) ==
  {r \in rows : r.asset_path = path /\ r.branch = branch /\ r.status = "active"}

AuditOfKey(path, version, branch) ==
  SelectSeq(audit, LAMBDA a : SameKey(a, path, version, branch))

Returned(p, op) == pc[p] = "done" /\ call[p].op = op /\ loc[p].status = 200

\* C1 (as claimed): no write ever changes a stored row's status from archived
\* back to active, under every interleaving of the calls.
C1_MonotoneStatus ==
  [][\A r \in rows : r.status = "archived" =>
       \A r2 \in rows' : SameKey(r2, r.asset_path, r.version_id, r.branch)
                           => r2.status # "active"]_vars

CrossBranch(p) ==
  /\ call[p].op # "none"
  /\ users[call[p].user].exists
  /\ call[p].branch # users[call[p].user].branch

C3_CrossBranchForbidden ==
  [][\A p \in Procs :
       CrossBranch(p)' =>
         /\ pc'[p] = "done" /\ loc'[p].status = 403 /\ loc'[p].nlogs = 0
         /\ (pc[p] # pc'[p] \/ call[p] # call'[p] \/ loc[p] # loc'[p])
              => UNCHANGED <<rows, audit, head, commits, mirror>>]_vars

\* C3 witness: the admin alice called an operation on bob's branch and was
\* refused.
C3_Witness ==
  \E p \in Procs :
    /\ CrossBranch(p) /\ "admin" \in users[call[p].user].permissions
    /\ pc[p] = "done" /\ loc[p].status = 403

\* C4 (as claimed): when upload_files of bytes P returns record R, retrieving
\* (R.asset_path, R.version_id) with content yields P.
C4_UploadRetrieveRoundTrip ==
  \A p \in Procs :
    Returned(p, "upload") =>
      LET found == GetAsset(loc[p].ret.asset_path, loc[p].ret.version_id, call[p].branch)
      IN found # {} /\ \A m \in found : PrimaryContent(m) = call[p].data

\* C5: the previous call on the coroutine was the same upload without
\* associated files, and both returned a record.
SameUploadTwice(p) ==
  /\ Returned(p, "upload")
  /\ last[p].op = "upload"
  /\ call[p].assoc = <<>> /\ last[p].assoc = <<>>
  /\ call[p].branch = last[p].branch
  /\ call[p].name = last[p].name
  /\ call[p].data = last[p].data

WrongStatusRead(p) ==
  LET found == GetAsset(call[p].path, call[p].version, call[p].branch)
  IN /\ found # {}
     /\ \/ pc[p] = "ar_read" /\ \A m \in found : m.status # "active"
        \/ pc[p] = "d_read" /\ \A m \in found : m.status # "archived"

C7_WrongStatusRejected ==
  [][\A p \in Procs :
       /\ (WrongStatusRead(p) /\ pc'[p] # pc[p]) =>
            /\ pc'[p] = "log" /\ loc'[p].status = 400 /\ loc'[p].after = "done"
            /\ UNCHANGED <<rows, head, commits, mirror>>
       /\ (pc[p] = "log" /\ loc[p].status = 400 /\ pc'[p] # pc[p]) =>
            /\ pc'[p] = "done" /\ loc'[p].status = 400
            /\ UNCHANGED <<rows, head, commits, mirror>>]_vars

\* C7 witness: a second archive of an archived version was refused with 400.
C7_Witness ==
  \E p \in Procs :
    /\ pc[p] = "done" /\ call[p].op = "archive" /\ loc[p].status = 400
    /\ \E m \in GetAsset(call[p].path, call[p].version, call[p].branch) :
         m.status = "archived"

\* C8 (as claimed): after destroy returns success the audit log holds no row
\* for the destroyed (asset_path, version_id, branch).
C8_NoAuditAfterDestroy ==
  \A p \in Procs :
    Returned(p, "destroy") =>
      AuditOfKey(call[p].path, call[p].version, call[p].branch) = <<>>

\* C8 (amended): after destroy returns success, with no other call in
\* flight, the audit log holds exactly one row for the key: the success row
\* of this destroy; every earlier row of the key is gone.
C8_OnlyDestroyRowRemains ==
  \A p \in Procs :
    Returned(p, "destroy") =>
      LET log == AuditOfKey(call[p].path, call[p].version, call[p].branch)
      IN /\ Len(log) = 1
         /\ log[1].operation = "destroy" /\ log[1].success
         /\ log[1].username = call[p].user

\* C8 witness: a destroy returned success.
C8_Witness ==
  \E p \in Procs :
    /\ Returned(p, "destroy")
    /\ loc[p].ret.status = "destroyed"
    /\ GetAsset(call[p].path, call[p].version, call[p].branch) = {}

\* C9: what the claim promises when destroy of the head version returns.
HeadDestroyed(p) ==
  LET m == loc[p].ret
  IN /\ head[call[p].branch][<<m.asset_path, m.primary_filename>>] = NoObj
     /\ \A i \in 1..Len(m.associated_filenames) :
          head[call[p].branch][<<m.asset_path, m.associated_filenames[i][1]>>] = NoObj
     /\ GetAsset(call[p].path, call[p].version, call[p].branch) = {}
     /\ ~\E e \in mirror : MirrorMatch(e, call[p].path, call[p].version)
                             /\ e.branch = call[p].branch

C10_ExactlyOneAuditRow ==
  \A p \in Procs :
    (pc[p] = "done" /\ call[p].op # "none" /\ loc[p].status # 403) => loc[p].nlogs = 1

\* No coroutine is inside a call.
Quiescent == \A p \in Procs : pc[p] \in {"idle", "done"}

\* C20 (as claimed): between calls, whenever the head of a branch already
\* holds the bytes at the key of a primary file (the object store would
\* answer NoChange to their upload), the metadata store has an active row for
\* that asset path and branch.
C20_NoChangeHasActiveRow ==
  Quiescent =>
    \A b \in AllBranches, n \in AllPrimaryNames, d \in Contents :
      UploadNoChange(b, <<AssetPathOf(n), n>>, d) => LatestActive(AssetPathOf(n), b) # {}

\* download_asset (GET /filedownload): the coordinator is called with the
\* branch of the token, and every exception it raises, HTTPException included,
\* is answered with HTTP 500.
DownloadAssetStatus(status) == IF status = 200 THEN 200 ELSE 500

\* A download request of bob, who is a user of bob_space, has been answered,
\* and bob_space has no record of the asset path and version asked for.
ForeignDownload(p) ==
  /\ pc[p] = "done"
  /\ call[p].op = "retrieve"
  /\ call[p].user = "bob"
  /\ call[p].branch = users["bob"].branch
  /\ GetAsset(call[p].path, call[p].version, call[p].branch) = {}

\* C18 (as claimed): a download request of a user of bob_space for an asset
\* path and version that are not of his branch is answered with HTTP 403.
C18_ForeignDownloadForbidden ==
  \A p \in Procs : ForeignDownload(p) => DownloadAssetStatus(loc[p].status) = 403

\* ------------------------------------------------ uploads with associated files
\* Calls started in one behaviour of AssocSpec.
MaxAssocCalls == 2

\* The associated files of AssocSpec: a plain name, a name that contains the
\* primary's name, and a name _sanitize_filename rejects.
AssocSpecNames == {"x.txt", "a.txt.sig", ".."}
AssocSpecLists ==
  {<<>>} \cup {<< <<"P", n>> >> : n \in AssocSpecNames}
         \cup {<< <<"P", nm[1]>>, <<"P", nm[2]>> >> :
                 nm \in {x \in AssocSpecNames \X AssocSpecNames : x[1] # x[2]}}

AssocInputs ==
  {[op |-> "upload", user |-> "alice", branch |-> "alice_space", name |-> n, data |-> d,
    assoc |-> a, path |-> AssetPathOf(n), version |-> None] :
      n \in PrimaryNames, d \in Contents, a \in AssocSpecLists}

AssocNext ==
  \E p \in {"p1"} :
    \/ now < MaxAssocCalls /\ StartCallFrom(p, AssocInputs) /\ UNCHANGED hist
    \/ LogAccess(p)
    \/ UploadPrimary(p)
    \/ UploadLatest(p)
    \/ AssocUpload(p)
    \/ AssocLookup(p)
    \/ UploadChanged(p)
    \/ UploadSave(p)

\* upload_files one call at a time with up to two associated files; the
\* stores may fail.
AssocSpec == Init /\ [][AssocNext]_vars

\* C17 (as claimed): upload_files does not fail because of associated files:
\* a call in which the task of some associated file failed (the object store
\* refused the file, its name was rejected, or its NoChange could not be
\* resolved) fails only when save_metadata itself fails; otherwise it returns
\* the record, and the record is the stored row.
C17_AssociatedFailuresTolerated ==
  \A p \in Procs :
    (pc[p] = "done" /\ call[p].op = "upload" /\ loc[p].dropped > 0) =>
      \/ loc[p].status = 500 /\ loc[p].error = "Failed to save metadata"
      \/ loc[p].status = 200 /\ loc[p].ret \in rows

\* C15 (as claimed): when upload_files commits a new primary version, every
\* object the branch head held under the asset path before the call, other
\* than the primary's key, is deleted before the associated files are
\* uploaded; and the row saved for the new version lists only associated
\* files of this call.
C15_PriorObjectsPurged ==
  [][\A p \in Procs :
       /\ (pc[p] = "u_primary" /\ pc'[p] = "u_assoc") =>
            \A k \in Keys :
              (k[1] = call[p].path /\ k[2] # call[p].name
                 /\ head[call[p].branch][k] # NoObj) =>
                head'[call[p].branch][k] = NoObj
       /\ (pc[p] = "u_save" /\ pc'[p] = "log" /\ loc[p].latest = NoRow) =>
            \A i \in DOMAIN loc'[p].ret.associated_filenames :
              \E j \in DOMAIN call[p].assoc :
                call[p].assoc[j][2] = loc'[p].ret.associated_filenames[i][1]]_vars

\* ------------------------------------------- archive and destroy, mirror failing
\* Calls started in one behaviour of MirrorSpec.
MaxMirrorCalls == 3

\* A document, which has a vector collection, and a file of the media class
\* "other", which has none.
MirrorSpecNames == {"a.txt", "c.bin"}

MirrorInputs ==
  {[op |-> "upload", user |-> "alice", branch |-> "alice_space", name |-> n, data |-> "P",
    assoc |-> <<>>, path |-> AssetPathOf(n), version |-> None] : n \in MirrorSpecNames}
  \cup
  {[op |-> o, user |-> "alice", branch |-> "alice_space", name |-> "", data |-> "",
    assoc |-> <<>>, path |-> AssetPathOf(n), version |-> v] :
      o \in {"archive", "destroy"}, n \in MirrorSpecNames, v \in VersionIds}

MirrorNext ==
  \/ \E p \in {"p1"} :
       \/ now < MaxMirrorCalls /\ StartCallFrom(p, MirrorInputs) /\ UNCHANGED hist
       \/ LogAccess(p)
       \/ UploadPrimary(p)
       \/ UploadLatest(p)
       \/ UploadChanged(p)
       \/ UploadSave(p)
       \/ ArchiveRead(p)
       \/ ArchiveUpdate(p)
       \/ ArchiveMirror(p)
       \/ ArchivePoll(p)
       \/ DestroyRead(p)
       \/ DestroyHead(p)
       \/ DestroyDelete(p)
       \/ DestroyMirror(p)
  \/ MirrorIndex

\* upload, archive and destroy one call at a time, of assets with and without
\* a vector collection; the stores (the mirror among them) may fail.
MirrorSpec == Init /\ [][MirrorNext]_vars

\* C16: an archive or destroy call during which the vector mirror failed (it
\* raised, or the asset's media class has no collection) returns as when the
\* mirror succeeds: archive returns the stored row with status archived and
\* destroy returns the record as destroyed with the row deleted, each after
\* writing its success audit row.
C16_MirrorFailureTolerated ==
  \A p \in Procs :
    (pc[p] = "done" /\ call[p].op \in {"archive", "destroy"} /\ loc[p].mirror_failed) =>
      LET c == call[p]
      IN /\ loc[p].status = 200
         /\ \E i \in DOMAIN audit :
              /\ SameKey(audit[i], c.path, c.version, c.branch)
              /\ audit[i].operation = c.op
              /\ audit[i].success
         /\ c.op = "archive" =>
              /\ loc[p].ret.status = "archived"
              /\ loc[p].ret \in GetAsset(c.path, c.version, c.branch)
         /\ c.op = "destroy" =>
              /\ loc[p].ret.status = "destroyed"
              /\ SameKey(loc[p].ret, c.path, c.version, c.branch)
              /\ GetAsset(c.path, c.version, c.branch) = {}

\* C16 happens: a destroy of an asset without a vector collection returned.
C16_Witness ==
  \E p \in Procs :
    /\ Returned(p, "destroy")
    /\ loc[p].mirror_failed
    /\ ~HasCollection(call[p].path)

\* ------------------------------------------------ the same bytes under two names
\* Calls started in one behaviour of DedupSpec.
MaxDedupCalls == 4

DedupSpecNames == {"a.txt", "b.txt"}

DedupInputs ==
  {[op |-> "upload", user |-> "alice", branch |-> "alice_space", name |-> n, data |-> d,
    assoc |-> <<>>, path |-> AssetPathOf(n), version |-> None] :
      n \in DedupSpecNames, d \in Contents}
  \cup
  {[op |-> "archive", user |-> "alice", branch |-> "alice_space", name |-> "", data |-> "",
    assoc |-> <<>>, path |-> AssetPathOf(n), version |-> v] :
      n \in DedupSpecNames, v \in VersionIds}

DedupNext ==
  \E p \in {"p1"} :
    \/ now < MaxDedupCalls /\ StartCallFrom(p, DedupInputs) /\ UNCHANGED hist
    \/ LogAccess(p)
    \/ UploadPrimary(p)
    \/ UploadLatest(p)
    \/ UploadChanged(p)
    \/ UploadSave(p)
    \/ ArchiveRead(p)
    \/ ArchiveUpdate(p)
    \/ ArchiveMirror(p)
    \/ ArchivePoll(p)

\* Uploads of two primary files and archive, one call at a time, the stores
\* available.
DedupSpec == InitAvailable /\ [][DedupNext]_vars

\* An upload has ended, and before it the branch had an active asset under
\* another asset path whose primary has the uploaded bytes, and no active
\* version of the uploaded asset path with these bytes.
SameBytesOtherName(p) ==
  /\ pc[p] = "done"
  /\ call[p].op = "upload"
  /\ \E r \in rows :
       /\ r.branch = call[p].branch
       /\ r.status = "active"
       /\ r.upload_date < now
       /\ r.asset_path # call[p].path
       /\ PrimaryContent(r) = call[p].data
  /\ ~\E r \in rows :
        /\ r.branch = call[p].branch
        /\ r.status = "active"
        /\ r.upload_date < now
        /\ r.asset_path = call[p].path
        /\ r.checksum = Checksum(call[p].data)

\* C13 (as claimed): when the branch has an active asset whose primary has
\* bytes P, an upload of P under another primary file name returns
\* changed = false with the message that names the earlier asset path.
C13_DedupAcrossPaths ==
  \A p \in Procs :
    SameBytesOtherName(p) => loc[p].status = 200 /\ loc[p].changed = "other_path"

\* ------------------------------------------------ merging associated files
\* Calls started in one behaviour of MergeSpec.
MaxMergeCalls == 4

\* The associated files of MergeSpec, one per call: <<content, name>>.
MergeSpecFiles ==
  {<<d, n>> : d \in Contents, n \in {"x.txt", "y.txt"}} \cup {<<"P", "z.txt">>}

MergeInputs ==
  {[op |-> "upload", user |-> "alice", branch |-> "alice_space", name |-> n, data |-> "P",
    assoc |-> <<f>>, path |-> AssetPathOf(n), version |-> None] :
      n \in PrimaryNames, f \in MergeSpecFiles}
  \cup
  {[op |-> "add", user |-> "alice", branch |-> "alice_space", name |-> "", data |-> "",
    assoc |-> <<f>>, path |-> q, version |-> None] :
      q \in AssetPaths, f \in MergeSpecFiles}

\* The next request arrives; hist keeps the call that returned before it. An
\* upload committed a new primary version when the record it returned has the
\* upload time of the call.
MergeStart(p) ==
  /\ StartCallFrom(p, MergeInputs)
  /\ hist' = IF call[p].op = "none" THEN hist
             ELSE Append(hist, Summary(call[p], loc[p],
                                       call[p].op = "upload" /\ loc[p].status = 200
                                         /\ loc[p].ret.upload_date = now))

MergeNext ==
  \E p \in {"p1"} :
    \/ now < MaxMergeCalls /\ MergeStart(p)
    \/ LogAccess(p)
    \/ UploadPrimary(p)
    \/ UploadLatest(p)
    \/ AssocUpload(p)
    \/ AssocLookup(p)
    \/ UploadChanged(p)
    \/ UploadSave(p)
    \/ AddRead(p)
    \/ AddSave(p)

\* upload_files and add_associated_files with one associated file each, one
\* call at a time, the stores available.
MergeSpec == InitAvailable /\ [][MergeNext]_vars

\* upload_files(P, [A]), add_associated_files([B]) and add_associated_files([A'])
\* returned one after the other on the same version; B has another file name
\* than A and A'.
ThreeCalls(p) ==
  /\ Returned(p, "add")
  /\ Len(hist) >= 2
  /\ LET up == hist[Len(hist) - 1]
         ad == hist[Len(hist)]
     IN /\ up.op = "upload" /\ up.status = 200
        /\ ad.op = "add" /\ ad.status = 200
        /\ up.version = ad.version /\ ad.version = loc[p].ret.version_id
        /\ Len(up.results) = 1 /\ Len(ad.results) = 1 /\ Len(loc[p].results) = 1
        /\ ad.assoc[1][2] # up.assoc[1][2]
        /\ ad.assoc[1][2] # call[p].assoc[1][2]

\* The pairs the claim expects in the row after the three calls.
ExpectedPairs(p) ==
  LET up == hist[Len(hist) - 1]
      ad == hist[Len(hist)]
      A == up.results[1]
      B == ad.results[1]
      A2 == loc[p].results[1]
  IN IF A2[1] = A[1] THEN {A2, B} ELSE {A, A2, B}

StoredPairs(p) ==
  UNION {{m.associated_filenames[i] : i \in DOMAIN m.associated_filenames} :
           m \in GetAsset(call[p].path, loc[p].ret.version_id, call[p].branch)}

\* Every pair names a commit that holds the file.
PairsStored(path, pairs) ==
  \A pr \in pairs : GetFile(<<path, pr[1]>>, pr[2]) # NoObj

NewVersion(p) == hist[Len(hist) - 1].fresh

\* The object store committed each of the three associated files.
AllCommitted(p) ==
  /\ hist[Len(hist) - 1].lookups = 0
  /\ hist[Len(hist)].lookups = 0
  /\ loc[p].lookups = 0

MaxAutoCalls == 2
\* Runs of auto_archive in one behaviour of AutoSpec.
MaxRuns == 2

\* The dates auto_archive is given: the default argument (evaluated once,
\* when the module is imported) and the archive dates of the uploads.
AutoDates == {0} \cup {t + DefaultTTL : t \in 1..MaxAutoCalls}

\* Each tenant uploads into its own branch.
AutoInputs ==
  {[op |-> "upload", user |-> u, branch |-> InitUsersWithAdmin[u].branch, name |-> n,
    data |-> "P", assoc |-> <<>>, path |-> AssetPathOf(n), version |-> None] :
      u \in {"alice", SchedulerUser}, n \in PrimaryNames}

\* Database.get_assets_to_archive.
AssetsToArchive(date) == {r \in rows : r.status = "active" /\ r.archive_date <= date}

\* auto_archive: read the due rows; without any, return at once.
AutoArchiveStart ==
  /\ job.pc \in {"idle", "done"}
  /\ job.runs < MaxRuns
  /\ \E d \in AutoDates :
       job' = [pc |-> IF AssetsToArchive(d) = {} THEN "done" ELSE "gather",
               runs |-> job.runs + 1,
               run |-> [NoRun EXCEPT !.date = d, !.due = AssetsToArchive(d),
                                     !.todo = AssetsToArchive(d), !.at = now,
                                     !.before = rows, !.quiet = Quiescent],
               prev |-> job.run]
  /\ UNCHANGED <<tasks, tokens, users, rows, audit, head, commits, mirror, now, faults, pc, call, loc, last,
                 hist>>

\* The value of auto_archive's default argument current_date: datetime.now()
\* when the def statement ran, at import, before any request of this process.
ImportDate == 0

\* run_auto_archive, fired by the CronTrigger at wall-clock time t: it calls
\* manager.auto_archive() without an argument, so the due rows are read with
\* the default current_date.
RunAutoArchive ==
  /\ job.pc \in {"idle", "done"}
  /\ job.runs < MaxRuns
  /\ \E t \in AutoDates \ {ImportDate} :
       /\ t >= job.run.time
       /\ job' = [pc |-> IF AssetsToArchive(ImportDate) = {} THEN "done" ELSE "gather",
                  runs |-> job.runs + 1,
                  run |-> [NoRun EXCEPT !.date = ImportDate,
                                        !.due = AssetsToArchive(ImportDate),
                                        !.todo = AssetsToArchive(ImportDate), !.at = now,
                                        !.before = rows, !.quiet = Quiescent,
                                        !.cron = TRUE, !.time = t],
                  prev |-> job.run]
  /\ UNCHANGED <<tasks, tokens, users, rows, audit, head, commits, mirror, now, faults, pc, call, loc, last,
                 hist>>

\* safe_archive(asset): archive("admin", asset.branch, asset.asset_path,
\* asset.version_id) starts on a free coroutine with its _check_permission.
AutoTask(p) ==
  /\ job.pc = "gather"
  /\ p \notin job.run.running
  /\ pc[p] \in {"idle", "done"}
  /\ \E r \in job.run.todo :
       LET c == [NoCall EXCEPT !.op = "archive", !.user = SchedulerUser, !.branch = r.branch,
                               !.path = r.asset_path, !.version = r.version_id]
       IN /\ job' = [job EXCEPT !.run.todo = @ \ {r}, !.run.running = @ \cup {p}]
          /\ call' = [call EXCEPT ![p] = c]
          /\ IF CheckPermission(c.user, c.branch, RequiredPermission(c.op)) # 0
               THEN /\ pc' = [pc EXCEPT ![p] = "done"]
                    /\ loc' = [loc EXCEPT ![p] =
                                 [NoLoc EXCEPT !.status = 403, !.error = "Forbidden"]]
               ELSE /\ pc' = [pc EXCEPT ![p] = FirstStep(c.op)]
                    /\ loc' = [loc EXCEPT ![p] = NoLoc]
  /\ last' = [last EXCEPT ![p] = NoCall]
  /\ UNCHANGED <<tasks, tokens, users, rows, audit, head, commits, mirror, now, faults, hist>>

\* asyncio.gather receives the result of a task: the archived record, or
\* None when safe_archive caught an exception.
AutoCollect(p) ==
  /\ p \in job.run.running
  /\ pc[p] = "done"
  /\ job' = [job EXCEPT !.run.running = @ \ {p},
                        !.run.archived = IF loc[p].status = 200
                                           THEN @ \cup {loc[p].ret} ELSE @]
  /\ UNCHANGED <<tasks, tokens, users, rows, audit, head, commits, mirror, now, faults, pc, call, loc, last,
                 hist>>

\* Every task has returned: auto_archive returns the archived records.
AutoArchiveEnd ==
  /\ job.pc = "gather"
  /\ job.run.todo = {}
  /\ job.run.running = {}
  /\ job' = [job EXCEPT !.pc = "done"]
  /\ UNCHANGED <<tasks, tokens, users, rows, audit, head, commits, mirror, now, faults, pc, call, loc, last,
                 hist>>

AutoNext ==
  \/ AutoArchiveStart
  \/ RunAutoArchive
  \/ AutoArchiveEnd
  \/ \E p \in Procs :
       \/ /\ now < MaxAutoCalls
          /\ FirstFree(p)
          /\ p \notin job.run.running
          /\ StartCallFrom(p, AutoInputs)
          /\ UNCHANGED hist
       \/ AutoTask(p)
       \/ AutoCollect(p)
       \/ LogAccess(p)
       \/ UploadPrimary(p)
       \/ UploadLatest(p)
       \/ UploadChanged(p)
       \/ UploadSave(p)
       \/ ArchiveRead(p)
       \/ ArchiveUpdate(p)
       \/ ArchiveMirror(p)
       \/ ArchivePoll(p)

\* Nobody, or somebody, is registered as "admin"; the stores never fail.
AutoInit ==
  /\ users \in {InitUsers, InitUsersWithAdmin}
  /\ InitStores
  /\ faults = MaxFaults

\* Uploads of the tenants interleaved with runs of auto_archive, started by
\* the cron trigger or called with a date.
AutoSpec == AutoInit /\ [][AutoNext]_vars

\* The stored row of a record is archived.
IsArchived(r) ==
  \E s \in rows : SameKey(s, r.asset_path, r.version_id, r.branch) /\ s.status = "archived"

\* C11 (as claimed): when a run of auto_archive completes, the stores being
\* available and no request having run meanwhile, every row that was active
\* with archive_date <= the run's date, in whatever branch, is archived.
C11_DueRowsArchived ==
  (job.pc = "done" /\ job.run.quiet /\ now = job.run.at) =>
    \A r \in job.run.due : IsArchived(r)

\* C12 (as claimed): of two runs of auto_archive with the same date, no
\* request being in flight when the first starts and none arriving before the
\* second ends, the first archives the rows that are due, and the second
\* archives none, changes no row and selects no row the first archived.
C12_SecondRunArchivesNothing ==
  (/\ job.pc = "done"
   /\ job.runs = 2
   /\ job.prev.date = job.run.date
   /\ job.prev.quiet /\ job.run.quiet /\ now = job.prev.at) =>
    /\ \A r \in job.prev.due :
         \E a \in job.prev.archived : SameKey(a, r.asset_path, r.version_id, r.branch)
    /\ job.run.archived = {}
    /\ rows = job.run.before
    /\ \A r \in job.run.due :
         ~\E a \in job.prev.archived : SameKey(a, r.asset_path, r.version_id, r.branch)

\* ------------------------------------------------- archive and its polling loop
\* Requests started in one behaviour of PollSpec.
MaxPollCalls == 3

\* alice uploads an asset, adds an associated file to its latest version,
\* archives and destroys versions of it.
PollInputs ==
  {[op |-> "upload", user |-> "alice", branch |-> "alice_space", name |-> n, data |-> "P",
    assoc |-> <<>>, path |-> AssetPathOf(n), version |-> None] : n \in PrimaryNames}
  \cup
  {[op |-> "add", user |-> "alice", branch |-> "alice_space", name |-> "", data |-> "",
    assoc |-> << <<"P", n>> >>, path |-> q, version |-> None] :
      q \in AssetPaths, n \in AssocNames}
  \cup
  {[op |-> o, user |-> "alice", branch |-> "alice_space", name |-> "", data |-> "",
    assoc |-> <<>>, path |-> q, version |-> v] :
      o \in {"archive", "destroy"}, q \in AssetPaths, v \in VersionIds}

\* The steps of the call running on coroutine p.
PollStep(p) ==
  \/ LogAccess(p)
  \/ UploadPrimary(p)
  \/ UploadLatest(p)
  \/ UploadChanged(p)
  \/ UploadSave(p)
  \/ AddRead(p)
  \/ AssocUpload(p)
  \/ AssocLookup(p)
  \/ AddSave(p)
  \/ ArchiveRead(p)
  \/ ArchiveUpdate(p)
  \/ ArchiveMirror(p)
  \/ ArchivePoll(p)
  \/ DestroyRead(p)
  \/ DestroyHead(p)
  \/ DestroyDelete(p)
  \/ DestroyMirror(p)

PollNext ==
  \E p \in Procs :
    \/ now < MaxPollCalls /\ FirstFree(p) /\ StartCallFrom(p, PollInputs) /\ UNCHANGED hist
    \/ PollStep(p)

\* Interleaved calls on one asset, the stores available. The event loop runs
\* every coroutine that is ready: a call that can take a step takes one.
PollSpec ==
  /\ InitAvailable
  /\ [][PollNext]_vars
  /\ \A p \in Procs : WF_vars(PollStep(p))

\* C19 (as claimed): every archive call that passed its precondition checks
\* eventually returns the archived record, whatever the other calls on the
\* same row do meanwhile.
C19_ArchiveReturns ==
  \A p \in Procs :
    (pc[p] = "ar_update") ~>
      (pc[p] = "done" /\ loc[p].status = 200 /\ loc[p].ret.status = "archived")

\* The active rows of a branch with a checksum.
ActiveWithChecksum(checksum, branch) ==
  {r \in rows : r.checksum = checksum /\ r.branch = branch /\ r.status = "active"}

\* C30 (as claimed): is_primary_file_changed answers changed = true exactly
\* when no active row of the branch has the checksum; it answers with the
\* same-path outcome whenever an active row with the checksum is at the same
\* asset path, also when another one is under a different asset path; and
\* with the other-path outcome only when none is at the same asset path.
C30_SamePathPreferred ==
  [][\A p \in Procs :
       (pc[p] = "u_assoc" /\ pc'[p] = "u_save") =>
         LET hit == ActiveWithChecksum(loc[p].checksum, call[p].branch)
             same == {r \in hit : r.asset_path = call[p].path}
         IN /\ (loc'[p].changed = "new") <=> (hit = {})
            /\ same # {} => loc'[p].changed = "same_path"
            /\ loc'[p].changed = "other_path" => same = {}]_vars

\* C29 (as claimed): every pair stored in a row's associated_filenames has a
\* version id, and that version is a commit of the object store that holds
\* the file under the row's asset path.
C29_AssociatedVersionsStored ==
  \A r \in rows :
    \A i \in DOMAIN r.associated_filenames :
      /\ r.associated_filenames[i][2] # None
      /\ GetFile(<<r.asset_path, r.associated_filenames[i][1]>>,
                 r.associated_filenames[i][2]) # NoObj

\* The version a record stores for a file name, None without an entry.
StoredVersion(m, fname) == DictGet(m.associated_filenames, fname)

\* C27 (as claimed): in add_associated_files, when the upload of an associated
\* file is answered NoChange and the target record has an entry for the file
\* name, the version recorded for the file is the one the target record
\* stores for it, whether or not the target is the latest active version.
C27_NoChangeReusesTargetVersion ==
  [][\A p \in Procs :
       (pc[p] = "a_lookup" /\ pc'[p] = "a_assoc") =>
         LET fname == call[p].assoc[loc[p].i][2]
         IN \A m \in GetAsset(call[p].path, loc[p].version, call[p].branch) :
              StoredVersion(m, fname) # None =>
                /\ Len(loc'[p].results) = Len(loc[p].results) + 1
                /\ loc'[p].results[Len(loc'[p].results)] =
                     <<fname, StoredVersion(m, fname)>>]_vars

\* C24 (as claimed): of two archive calls on the same version, and of two
\* destroy calls on the same version, that ran on the two coroutines, at most
\* one returned success.
C24_OneCallPerTransition ==
  \A p \in Procs : \A q \in Procs \ {p} :
    \A op \in {"archive", "destroy"} :
      ~(/\ Returned(p, op)
        /\ Returned(q, op)
        /\ call[p].path = call[q].path
        /\ call[p].version = call[q].version
        /\ call[p].branch = call[q].branch)

\* -------------------------------------------------- destroy and the head version
\* Calls started in one behaviour of DestroySpec.
MaxDestroyCalls == 4

DestroyInputs ==
  {[op |-> "upload", user |-> "alice", branch |-> "alice_space", name |-> n, data |-> d,
    assoc |-> a, path |-> AssetPathOf(n), version |-> None] :
      n \in PrimaryNames, d \in Contents,
      a \in {<<>>} \cup {<< <<"P", f>> >> : f \in AssocNames}}
  \cup
  {[op |-> o, user |-> "alice", branch |-> "alice_space", name |-> "", data |-> "",
    assoc |-> <<>>, path |-> q, version |-> v] :
      o \in {"archive", "destroy"}, q \in AssetPaths, v \in VersionIds}

DestroyNext ==
  \E p \in {"p1"} :
    \/ now < MaxDestroyCalls /\ StartCallFrom(p, DestroyInputs) /\ UNCHANGED hist
    \/ LogAccess(p)
    \/ UploadPrimary(p)
    \/ UploadLatest(p)
    \/ AssocUpload(p)
    \/ AssocLookup(p)
    \/ UploadChanged(p)
    \/ UploadSave(p)
    \/ ArchiveRead(p)
    \/ ArchiveUpdate(p)
    \/ ArchiveMirror(p)
    \/ ArchivePoll(p)
    \/ DestroyRead(p)
    \/ DestroyHead(p)
    \/ DestroyDelete(p)
    \/ DestroyMirror(p)

\* Several versions of one asset uploaded, archived and destroyed, one call at
\* a time; the stores may fail.
DestroySpec == Init /\ [][DestroyNext]_vars

\* A row of the same asset path and branch was uploaded after the record.
NewerRow(m) ==
  \E r \in rows :
    r.asset_path = m.asset_path /\ r.branch = m.branch /\ r.upload_date > m.upload_date

\* The keys of a record's files: the primary and each associated file.
FileKeys(m) ==
  {<<m.asset_path, m.primary_filename>>}
    \cup {<<m.asset_path, m.associated_filenames[i][1]>> : i \in DOMAIN m.associated_filenames}

C22_NonActiveUntouched ==
  [][\A p \in Procs :
       /\ (/\ pc[p] = "a_read" /\ pc'[p] # "a_read"
           /\ AddTargets(p) # {}
           /\ \A m \in AddTargets(p) : m.status # "active")
            => /\ loc'[p].status = 400
               /\ head' = head
               /\ commits' = commits
       /\ (pc[p] = "a_assoc" /\ pc'[p] # "a_assoc")
            => \A r \in rows : \A s \in rows' :
                 (/\ r.status = "archived"
                  /\ s.asset_path = r.asset_path
                  /\ s.version_id = r.version_id
                  /\ s.branch = r.branch)
                   => s.associated_filenames = r.associated_filenames]_vars

\* ------------------------------------------- concurrent add_associated_files
\* Calls started in one behaviour of RaceSpec.
MaxRaceCalls == 3

RaceInputs ==
  {[op |-> "upload", user |-> "alice", branch |-> "alice_space", name |-> n, data |-> "P",
    assoc |-> <<>>, path |-> AssetPathOf(n), version |-> None] : n \in PrimaryNames}
  \cup
  {[op |-> "add", user |-> "alice", branch |-> "alice_space", name |-> "", data |-> "",
    assoc |-> << <<"P", f>> >>, path |-> q, version |-> v] :
      f \in {"x.txt", "y.txt"}, q \in AssetPaths, v \in {None} \cup VersionIds}

RaceNext ==
  \E p \in Procs :
    \/ now < MaxRaceCalls /\ FirstFree(p) /\ StartCallFrom(p, RaceInputs) /\ UNCHANGED hist
    \/ LogAccess(p)
    \/ UploadPrimary(p)
    \/ UploadLatest(p)
    \/ AssocUpload(p)
    \/ AssocLookup(p)
    \/ UploadChanged(p)
    \/ UploadSave(p)
    \/ AddRead(p)
    \/ AddSave(p)

\* upload_files and add_associated_files calls of one user interleave at
\* their await points, the stores available.
RaceSpec == InitAvailable /\ [][RaceNext]_vars

\* The file names of a list of (filename, version) pairs.
NamesOf(pairs) == {pairs[i][1] : i \in DOMAIN pairs}

\* The file names of a list of (content, filename) uploads.
UploadedNames(files) == {files[i][2] : i \in DOMAIN files}

\* C23 (as claimed): when two add_associated_files calls for different file
\* names on the same active version have both returned success, the stored
\* record of that version holds both file names.
C23_NoLostUpdate ==
  \A p \in Procs : \A q \in Procs \ {p} :
    (/\ Returned(p, "add") /\ Returned(q, "add")
     /\ call[p].path = call[q].path
     /\ loc[p].ret.version_id = loc[q].ret.version_id
     /\ UploadedNames(call[p].assoc) \cap UploadedNames(call[q].assoc) = {})
      => \A r \in rows :
           (/\ r.asset_path = call[p].path
            /\ r.branch = call[p].branch
            /\ r.version_id = loc[p].ret.version_id)
             => UploadedNames(call[p].assoc) \cup UploadedNames(call[q].assoc)
                  \subseteq NamesOf(r.associated_filenames)

\* The rows stored for the key of record m.
StoredLike(rs, m) ==
  {r \in rs : SameKey(r, m.asset_path, m.version_id, m.branch)}

\* C26 (as claimed): an upload_files call whose primary resolved as NoChange
\* purges no object, and its save creates no row and changes nothing but the
\* associated_filenames of the existing record: version, checksum, status
\* and the three dates stay as stored, and the file names become the union of
\* the stored pairs and the new pairs, a new pair replacing the stored pair
\* of the same file name.
C26_NoChangeKeepsRecord ==
  [][\A p \in Procs :
       /\ (\/ pc[p] = "u_primary" /\ pc'[p] = "u_latest"
           \/ /\ pc[p] \in {"u_assoc", "u_lookup"} /\ loc[p].latest # NoRow
              /\ (pc'[p] # pc[p] \/ loc'[p] # loc[p]))
            => \A b \in DOMAIN head : \A k \in Keys :
                 head[b][k] # NoObj => head'[b][k] # NoObj
       /\ (pc[p] = "u_save" /\ pc'[p] = "log" /\ loc[p].latest # NoRow)
            => LET m == loc[p].latest
                   new == loc[p].results
               IN /\ StoredLike(rows, m) # {}
                  /\ rows \ StoredLike(rows, m) = rows' \ StoredLike(rows', m)
                  /\ \A r \in StoredLike(rows, m) : \E s \in rows' :
                       /\ StoredLike(rows', m) = {s}
                       /\ s = [r EXCEPT !.associated_filenames = s.associated_filenames]
                       /\ NamesOf(s.associated_filenames) =
                            NamesOf(r.associated_filenames) \cup NamesOf(new)
                       /\ \A f \in NamesOf(s.associated_filenames) :
                            DictGet(s.associated_filenames, f) =
                              IF f \in NamesOf(new) THEN DictGet(new, f)
                              ELSE DictGet(r.associated_filenames, f)]_vars

\* ------------------------------------------------ assets with a common prefix
\* Calls started in one behaviour of PrefixSpec.
MaxPrefixCalls == 3

\* Two primaries whose asset paths are document/a and document/ab.
PrefixSpecNames == {"a.txt", "ab.txt"}

PrefixInputs ==
  {[op |-> "upload", user |-> "alice", branch |-> "alice_space", name |-> n, data |-> d,
    assoc |-> a, path |-> AssetPathOf(n), version |-> None] :
      n \in PrefixSpecNames, d \in Contents, a \in {<<>>}}
  \cup
  {[op |-> "upload", user |-> "alice", branch |-> "alice_space", name |-> n, data |-> d,
    assoc |-> << <<"P", f>> >>, path |-> AssetPathOf(n), version |-> None] :
      n \in PrimaryNames, d \in Contents, f \in AssocNames}

PrefixNext ==
  \E p \in {"p1"} :
    \/ now < MaxPrefixCalls /\ StartCallFrom(p, PrefixInputs) /\ UNCHANGED hist
    \/ LogAccess(p)
    \/ UploadPrimary(p)
    \/ UploadLatest(p)
    \/ AssocUpload(p)
    \/ AssocLookup(p)
    \/ UploadChanged(p)
    \/ UploadSave(p)

\* upload_files of two assets one after the other, the stores available.
PrefixSpec == InitAvailable /\ [][PrefixNext]_vars

\* C28 (as claimed): the step of upload_files that commits a new primary and
\* purges the superseded associated files of asset path A leaves every object
\* outside A's directory as it is, also the objects of an asset whose path
\* begins with the characters of A.
C28_PurgeStaysInDirectory ==
  [][\A p \in Procs :
       (pc[p] = "u_primary" /\ pc'[p] = "u_assoc") =>
         \A b \in DOMAIN head : \A k \in Keys :
           k[1] # call[p].path => head'[b][k] = head[b][k]]_vars

\* C21 (as claimed): a run of auto_archive started by the cron trigger selects
\* the rows by comparing their archive_date with the time of that run: the
\* rows it selects are the active rows whose archive_date is not after the
\* wall-clock time at which the trigger fired.
C21_CronRunUsesRunTime ==
  [][(job'.runs = job.runs + 1 /\ job'.run.cron) =>
       job'.run.due =
         {r \in rows : r.status = "active" /\ r.archive_date <= job'.run.time}]_vars

\* ------------------------------------------------------- the HTTP endpoints
\* archive_asset (POST /filearchive): `except Exception` around manager.archive
\* answers every exception, HTTPException included, with HTTP 500.
ArchiveAssetStatus(status) == IF status = 200 THEN 200 ELSE 500

\* destroy_asset (POST /delfile): the same around manager.destroy.
DestroyAssetStatus(status) == IF status = 200 THEN 200 ELSE 500

\* C31 (as claimed): POST /filearchive and POST /delfile answer with the
\* status of the coordinator's error unchanged: 404 for an absent asset or
\* version, 400 for a status that is wrong for the transition (a second
\* archive of the same version, a destroy of a version that is not archived)
\* and 403 for a missing permission.
C31_EndpointKeepsStatus ==
  \A p \in Procs :
    pc[p] = "done" =>
      /\ call[p].op = "archive" => ArchiveAssetStatus(loc[p].status) = loc[p].status
      /\ call[p].op = "destroy" => DestroyAssetStatus(loc[p].status) = loc[p].status

\* --------------------------------------------------- the vector mirror alone
\* Version ids of the records the indexing pipeline hands to the mirror.
MaxVectorVersions == 3

\* The payloads of the pipeline: records of either branch.
VectorRecords ==
  [asset_path : AssetPaths, version_id : 1..MaxVectorVersions, branch : Branches,
   status : {"active", "archived"}]

\* VectorStore.save_or_update_metadata: a point with the record's asset_path,
\* version_id and branch gets the record as its payload (update_metadata);
\* without one a new point is inserted.
SaveOrUpdateMetadata(mr, m) ==
  {e \in mr : ~(MirrorMatch(e, m.asset_path, m.version_id) /\ e.branch = m.branch)} \cup {m}

VectorSave ==
  /\ \E m \in VectorRecords : mirror' = SaveOrUpdateMetadata(mirror, m)
  /\ UNCHANGED <<tasks, tokens, users, rows, audit, head, commits, now, faults, pc, call, loc, last, job, hist>>

\* VectorStore.archive_metadata(asset_path, version_id, branch).
VectorArchive ==
  /\ \E m \in VectorRecords :
       mirror' = MirrorArchive(mirror, m.asset_path, m.version_id, m.branch)
  /\ UNCHANGED <<tasks, tokens, users, rows, audit, head, commits, now, faults, pc, call, loc, last, job, hist>>

\* VectorStore.delete_metadata(asset_path, version_id, branch).
VectorDelete ==
  /\ \E m \in VectorRecords :
       mirror' = MirrorDelete(mirror, m.asset_path, m.version_id, m.branch)
  /\ UNCHANGED <<tasks, tokens, users, rows, audit, head, commits, now, faults, pc, call, loc, last, job, hist>>

VectorNext ==
  \/ VectorSave
  \/ VectorArchive
  \/ VectorDelete

\* The mirror filled by the pipeline and changed by archive_metadata and
\* delete_metadata.
VectorSpec == InitAvailable /\ [][VectorNext]_vars

\* C32 (as claimed): archive_metadata and delete_metadata change only the
\* entries whose asset_path, version_id and branch all equal the arguments:
\* every other entry of the mirror, an entry of another branch with the same
\* asset_path and version_id among them, is in the mirror afterwards as it
\* was.
C32_OnlyMatchingEntries ==
  \A m \in VectorRecords : \A e \in mirror :
    (e.asset_path # m.asset_path \/ e.version_id # m.version_id \/ e.branch # m.branch) =>
      /\ e \in MirrorArchive(mirror, m.asset_path, m.version_id, m.branch)
      /\ e \in MirrorDelete(mirror, m.asset_path, m.version_id, m.branch)

\* ------------------------------------------------------ uploads with TTLs
\* Calls started in one behaviour of TtlSpec.
MaxTtlCalls == 2

\* The form fields archive_ttl and destroy_ttl of POST /fileupload are
\* integers: a negative one, zero, one day and the default.
TtlValues == {-1, 0, 1, DefaultTTL}

TtlInputs ==
  {[op |-> "upload", user |-> "alice", branch |-> "alice_space", name |-> n, data |-> d,
    assoc |-> <<>>, path |-> AssetPathOf(n), version |-> None,
    archive_ttl |-> at, destroy_ttl |-> dt] :
      n \in PrimaryNames, d \in Contents, at \in TtlValues, dt \in TtlValues}

TtlNext ==
  \E p \in {"p1"} :
    \/ now < MaxTtlCalls /\ StartCallFrom(p, TtlInputs) /\ UNCHANGED hist
    \/ LogAccess(p)
    \/ UploadPrimary(p)
    \/ UploadLatest(p)
    \/ UploadChanged(p)
    \/ UploadSave(p)

\* upload_files with the TTLs a request can carry, the stores available.
TtlSpec == InitAvailable /\ [][TtlNext]_vars

\* C33 (as claimed): every stored metadata row has destroy_date >
\* archive_date > upload_date, whatever archive_ttl and destroy_ttl the
\* upload was given: zero and negative TTLs are refused, never stored.
C33_DatesOrdered ==
  \A r \in rows : r.destroy_date > r.archive_date /\ r.archive_date > r.upload_date

\* C34: when every associated upload of an add_associated_files call has
\* failed (each task of the gather returned None), the call ends with status
\* 500 in its next step, without a metadata write and without an audit row:
\* the rows, the target's associated_filenames among them, stay as they are.
C34_AllFailedNoWrite ==
  [][\A p \in Procs :
       (/\ call[p].op = "add"
        /\ pc[p] = "a_assoc"
        /\ loc[p].i > Len(call[p].assoc)
        /\ loc[p].dropped = Len(call[p].assoc)
        /\ pc'[p] # pc[p])
         => /\ pc'[p] = "done"
            /\ loc'[p].status = 500
            /\ rows' = rows
            /\ audit' = audit]_vars

\* C34 happens: an add_associated_files call whose target was read and whose
\* uploads all failed has ended.
C34_Witness ==
  \E p \in Procs :
    /\ pc[p] = "done"
    /\ call[p].op = "add"
    /\ Len(call[p].assoc) > 0
    /\ loc[p].dropped = Len(call[p].assoc)
    /\ loc[p].status = 500
    /\ \E r \in rows : r.asset_path = call[p].path /\ r.branch = call[p].branch
                         /\ r.status = "active"

\* ------------------------------------------------ users and access tokens
\* Coordinator calls started in one behaviour of UserSpec.
MaxUserCalls == 2
\* Access tokens issued in one behaviour of UserSpec.
MaxTokens == 2

\* No row in the users table.
NoUser == [exists |-> FALSE, branch |-> "", permissions |-> {}]

\* f"{username}_space"
SpaceOf(username) ==
  CASE username = "alice" -> "alice_space"
    [] username = "bob" -> "bob_space"
    [] OTHER -> "admin_space"

\* User.permissions of a request body: none, one permission, or admin.
PermissionLists == {{}, {"download"}, {"archive"}, {"admin"}}

\* POST /users: db.create_admin_user inserts the user as admin of a branch of
\* its own; a user name that exists is refused (400).
CreateAdminUser ==
  /\ \E u \in Usernames :
       IF users[u].exists
         THEN UNCHANGED users
         ELSE users' = [users EXCEPT ![u] = [exists |-> TRUE, branch |-> SpaceOf(u),
                                             permissions |-> {"admin"}]]
  /\ UNCHANGED <<tasks, tokens, rows, audit, head, commits, mirror, now, faults, pc, call, loc, last,
                 job, hist>>

\* POST /token: the token carries the user's name, branch and permissions as
\* stored at the time of the login.
Login ==
  /\ Cardinality(tokens) < MaxTokens
  /\ \E u \in Usernames :
       /\ users[u].exists
       /\ tokens' = tokens \cup {[username |-> u, branch |-> users[u].branch,
                                  permissions |-> users[u].permissions]}
  /\ UNCHANGED <<tasks, users, rows, audit, head, commits, mirror, now, faults, pc, call, loc,
                 last, job, hist>>

\* The permissions create_shared_user accepts for a shared user: some, and
\* not admin.
SharedPermissionsAllowed_Any(ps) == ps # {}
SharedPermissionsAllowed(ps) == ps # {} /\ "admin" \notin ps

\* POST /shared-users with a token: the token must carry admin (403); empty
\* permissions are refused (400), admin among them and a user name that
\* exists are refused inside the try (500, 400); else db.create_user inserts
\* the user on the branch of the token.
CreateSharedUser ==
  /\ \E t \in tokens, u \in Usernames, ps \in PermissionLists :
       IF /\ "admin" \in t.permissions
          /\ SharedPermissionsAllowed(ps)
          /\ ~users[u].exists
         THEN users' = [users EXCEPT ![u] = [exists |-> TRUE, branch |-> t.branch,
                                             permissions |-> ps]]
         ELSE UNCHANGED users
  /\ UNCHANGED <<tasks, tokens, rows, audit, head, commits, mirror, now, faults, pc, call, loc, last,
                 job, hist>>

\* The request of DELETE or PUT /shared-users that a coroutine serves.
SharedUserRequest(op, t, u, ps) ==
  [target |-> u, permissions |-> ps]
    @@ [NoCall EXCEPT !.op = op, !.user = t.username, !.branch = t.branch]

\* The checks of delete_shared_user and change_shared_user on the user that
\* db.get_user_by_name returned, against the token of the caller.
IsSharedUserOf(user, t) ==
  /\ user.exists
  /\ "admin" \notin user.permissions
  /\ user.branch = t.branch

\* DELETE /shared-users up to `await db.delete_user_by_name`: the token must
\* carry admin (403); db.get_user_by_name; a user that is absent, holds admin
\* or is of another branch is refused (500, raised inside the try).
DeleteSharedUserRead(p) ==
  /\ pc[p] \in {"idle", "done"}
  /\ \E t \in tokens, u \in Usernames :
       IF "admin" \in t.permissions /\ IsSharedUserOf(users[u], t)
         THEN /\ pc' = [pc EXCEPT ![p] = "su_delete"]
              /\ call' = [call EXCEPT ![p] = SharedUserRequest("delete_user", t, u, {})]
              /\ loc' = [loc EXCEPT ![p] = NoLoc]
         ELSE UNCHANGED <<pc, call, loc>>
  /\ UNCHANGED <<tasks, tokens, users, rows, audit, head, commits, mirror, now, faults, last, job, hist>>

\* db.delete_user_by_name: DELETE FROM users WHERE username = ...
DeleteSharedUserWrite(p) ==
  /\ pc[p] = "su_delete"
  /\ users' = [users EXCEPT ![call[p].target] = NoUser]
  /\ pc' = [pc EXCEPT ![p] = "idle"]
  /\ call' = [call EXCEPT ![p] = NoCall]
  /\ UNCHANGED <<tasks, tokens, rows, audit, head, commits, mirror, now, faults, loc, last, job, hist>>

\* PUT /shared-users up to `await db.change_shared_user_permission`: as
\* DELETE, and empty permissions are refused (400).
ChangeSharedUserRead(p) ==
  /\ pc[p] \in {"idle", "done"}
  /\ \E t \in tokens, u \in Usernames, ps \in PermissionLists :
       IF "admin" \in t.permissions /\ ps # {} /\ IsSharedUserOf(users[u], t)
         THEN /\ pc' = [pc EXCEPT ![p] = "su_change"]
              /\ call' = [call EXCEPT ![p] = SharedUserRequest("change_user", t, u, ps)]
              /\ loc' = [loc EXCEPT ![p] = NoLoc]
         ELSE UNCHANGED <<pc, call, loc>>
  /\ UNCHANGED <<tasks, tokens, users, rows, audit, head, commits, mirror, now, faults, last, job, hist>>

\* db.change_shared_user_permission: admin among the permissions raises (500);
\* else UPDATE users SET permissions = ... WHERE username = ...
ChangeSharedUserWrite(p) ==
  /\ pc[p] = "su_change"
  /\ LET u == call[p].target
     IN IF "admin" \notin call[p].permissions /\ users[u].exists
          THEN users' = [users EXCEPT ![u].permissions = call[p].permissions]
          ELSE UNCHANGED users
  /\ pc' = [pc EXCEPT ![p] = "idle"]
  /\ call' = [call EXCEPT ![p] = NoCall]
  /\ UNCHANGED <<tasks, tokens, rows, audit, head, commits, mirror, now, faults, loc, last, job, hist>>

\* GET /filedownload with a token: get_current_user takes the user name and
\* the branch from the token.
UserCallInputs ==
  {[NoCall EXCEPT !.op = "retrieve", !.user = t.username, !.branch = t.branch,
                  !.path = q, !.version = 1] : t \in tokens, q \in AssetPaths}

UserNext ==
  \/ CreateAdminUser
  \/ Login
  \/ CreateSharedUser
  \/ \E p \in Procs :
       \/ now < MaxUserCalls /\ FirstFree(p) /\ StartCallFrom(p, UserCallInputs)
            /\ UNCHANGED hist
       \/ FirstFree(p) /\ DeleteSharedUserRead(p)
       \/ DeleteSharedUserWrite(p)
       \/ FirstFree(p) /\ ChangeSharedUserRead(p)
       \/ ChangeSharedUserWrite(p)
       \/ RetrieveRead(p)
       \/ LogAccess(p)

\* The users table is empty when the service starts.
UserInit ==
  /\ users = [u \in AllUsers |-> NoUser]
  /\ InitStores
  /\ faults = MaxFaults

\* Users register, log in and manage shared users while downloads are
\* requested with the tokens issued.
UserSpec == UserInit /\ [][UserNext]_vars

\* C35: a coordinator call is decided by the user's stored record at the time
\* of the call, not by the token it is made with: when the user of the token
\* is no longer stored, is stored on another branch than the token's, or is
\* stored without the required permission (and without admin), the call ends
\* with 403 at once.
C35_StoredRecordDecides ==
  [][\A p \in Procs :
       (/\ now' = now + 1
        /\ pc[p] \in {"idle", "done"}
        /\ call'[p].op = "retrieve"
        /\ <<pc'[p], call'[p], loc'[p]>> # <<pc[p], call[p], loc[p]>>)
         => LET u == users[call'[p].user]
            IN (\/ ~u.exists
                \/ u.branch # call'[p].branch
                \/ {"admin", "download"} \cap u.permissions = {})
                 => pc'[p] = "done" /\ loc'[p].status = 403]_vars

\* C35 happens: a download made with a token that carries the download
\* permission has ended with 403, the user of the token being deleted or
\* stored without that permission.
C35_Witness ==
  \E p \in Procs : \E t \in tokens :
    /\ pc[p] = "done"
    /\ call[p].op = "retrieve"
    /\ loc[p].status = 403
    /\ t.username = call[p].user
    /\ t.branch = call[p].branch
    /\ "download" \in t.permissions
    /\ \/ ~users[t.username].exists
       \/ users[t.username].branch = t.branch
            /\ "download" \notin users[t.username].permissions

\* C36: every stored user that holds admin is as POST /users creates it: its
\* branch is '{username}_space' and admin is its only permission; the users
\* that POST /shared-users stores and PUT /shared-users changes never hold
\* admin.
C36_AdminsOwnTheirBranch ==
  \A u \in AllUsers :
    (users[u].exists /\ "admin" \in users[u].permissions) =>
      /\ users[u].branch = SpaceOf(u)
      /\ users[u].permissions = {"admin"}

\* C36 happens: an admin and a shared user of the admin's branch are stored,
\* and a request to give that shared user the admin permission is being
\* served with the token of the admin.
C36_Witness ==
  \E u \in Usernames : \E v \in Usernames \ {u} : \E p \in Procs :
    /\ users[u].exists /\ "admin" \in users[u].permissions
    /\ users[v].exists /\ users[v].branch = users[u].branch
    /\ pc[p] = "su_change"
    /\ call[p].user = u /\ call[p].target = v /\ "admin" \in call[p].permissions

\* C37: a DELETE or PUT /shared-users request made with the token of an admin
\* of branch X never deletes or modifies a user who holds admin or whose
\* branch is not X: when the write of the request reaches such a user, the
\* users table is left unchanged.
C37_SharedUserWritesStayInBranch ==
  [][\A p \in Procs :
       (pc[p] \in {"su_delete", "su_change"} /\ pc'[p] # pc[p]) =>
         LET v == users[call[p].target]
         IN (v.exists /\ ("admin" \in v.permissions \/ v.branch # call[p].branch))
              => users' = users]_vars

\* The primary of the upload of p is settled: a version is known, and it is
\* the commit that holds the primary's bytes or the version of the record the
\* NoChange path read.
PrimaryDone(p) ==
  /\ loc[p].version # None
  /\ IF loc[p].latest = NoRow
       THEN GetFile(<<call[p].path, call[p].name>>, loc[p].version) = call[p].data
       ELSE loc[p].latest.version_id = loc[p].version

\* The metadata write that goes with the success audit row a of the call of
\* p is in the table.
MetadataWritten(p, a) ==
  CASE a.operation \in {"upload", "add_associated_files"} -> loc[p].ret \in rows
    [] a.operation = "archive" ->
         \E r \in GetAsset(a.asset_path, a.version_id, a.branch) : r.status = "archived"
    [] a.operation = "destroy" -> GetAsset(a.asset_path, a.version_id, a.branch) = {}
    [] OTHER -> TRUE

\* C38: within one upload_files call the primary upload (or its NoChange
\* resolution) is complete before any associated upload starts and before
\* save_metadata, and save_metadata runs after all associated uploads; in
\* upload_files, add_associated_files, archive and destroy the metadata write
\* is complete before the success audit row of the call is written.
C38_OrderWithinCall ==
  [][\A p \in Procs :
       /\ (pc[p] \in {"u_assoc", "u_lookup"} /\ loc[p].i <= Len(call[p].assoc)
             /\ loc'[p] # loc[p])
            => PrimaryDone(p)
       /\ (pc[p] = "u_save" /\ rows' # rows)
            => PrimaryDone(p) /\ loc[p].i > Len(call[p].assoc)
       /\ (pc[p] = "log" /\ Len(audit') = Len(audit) + 1 /\ Head(loc[p].pend).success)
            => MetadataWritten(p, Head(loc[p].pend))]_vars

\* C38 happens: an upload with an associated file went through its primary
\* upload, its associated upload, save_metadata and the audit row.
C38_Witness ==
  \E p \in Procs :
    /\ Returned(p, "upload")
    /\ loc[p].results # <<>>
    /\ loc[p].ret \in rows
    /\ \E i \in DOMAIN audit : audit[i].operation = "upload" /\ audit[i].success

\* ------------------------------------------------ the gather of the tasks
MaxGatherCalls == 2
MaxGatherTasks == 5

\* upload_concurrency: the configured limit of associated-file tasks in
\* flight (default).
UploadConcurrency == 4

\* A task of the gather: scheduled, suspended at its await ("lookup"), or
\* done with the value it returned (NoResult: None).
NoResult == <<>>
NewTask == [state |-> "scheduled", result |-> NoResult]

\* One request carrying up to MaxGatherTasks associated files (the same file
\* may be sent several times).
GatherLists ==
  {[i \in 1..n |-> <<d, "x.txt">>] : n \in 1..MaxGatherTasks, d \in Contents}

GatherInputs ==
  {[op |-> "upload", user |-> "alice", branch |-> "alice_space", name |-> "a.txt",
    data |-> "P", assoc |-> a, path |-> AssetPathOf("a.txt"), version |-> None] :
      a \in GatherLists}
  \cup
  {[op |-> "add", user |-> "alice", branch |-> "alice_space", name |-> "", data |-> "",
    assoc |-> a, path |-> AssetPathOf("a.txt"), version |-> None] : a \in GatherLists}

\* tasks = [self._upload_assoc_task(...) for ...]; asyncio.gather(*tasks):
\* one task per associated file, all scheduled at once.
GatherCreate(p) ==
  /\ pc[p] \in {"u_assoc", "a_assoc"}
  /\ tasks[p] = <<>>
  /\ loc[p].i = 1
  /\ tasks' = [tasks EXCEPT ![p] = [i \in 1..Len(call[p].assoc) |-> NewTask]]
  /\ UNCHANGED <<tokens, users, rows, audit, head, commits, mirror, now, faults, pc, call, loc,
                 last, job, hist>>

\* The event loop starts the next scheduled task: _upload_assoc_task runs
\* object_store.upload_file (which has no await of its own) and returns, or,
\* on NoChange, suspends at `await self.db.get_latest_active_asset`. Nothing
\* makes a task wait for the tasks started before it.
TaskStart(p, i) ==
  /\ pc[p] \in {"u_assoc", "a_assoc"}
  /\ i \in DOMAIN tasks[p]
  /\ tasks[p][i].state = "scheduled"
  /\ \A j \in 1..(i - 1) : tasks[p][j].state # "scheduled"
  /\ LET c == call[p]
         file == c.assoc[i]
         key == <<c.path, file[2]>>
     IN IF UploadNoChange(c.branch, key, file[1])
          THEN /\ tasks' = [tasks EXCEPT ![p][i].state = "lookup"]
               /\ UNCHANGED <<head, commits>>
          ELSE /\ head' = [head EXCEPT ![c.branch] = TreeAfterUpload(c.branch, key, file[1])]
               /\ commits' = Append(commits, UploadCommit(c.branch, key, file[1]))
               /\ tasks' = [tasks EXCEPT ![p][i] =
                              [state |-> "done", result |-> <<file[2], Len(commits) + 1>>]]
  /\ UNCHANGED <<tokens, users, rows, audit, mirror, now, faults, pc, call, loc, last, job, hist>>

\* A suspended task resumes with the latest active record: it returns the
\* version the record has for the file, or None without a record.
TaskLookup(p, i) ==
  /\ pc[p] \in {"u_assoc", "a_assoc"}
  /\ i \in DOMAIN tasks[p]
  /\ tasks[p][i].state = "lookup"
  /\ LET c == call[p]
         fname == c.assoc[i][2]
         cands == LatestActive(c.path, c.branch)
     IN IF cands = {}
          THEN tasks' = [tasks EXCEPT ![p][i] = [state |-> "done", result |-> NoResult]]
          ELSE \E m \in cands :
                 tasks' = [tasks EXCEPT ![p][i] =
                   [state |-> "done",
                    result |-> <<fname, DictGet(m.associated_filenames, fname)>>]]
  /\ UNCHANGED <<tokens, users, rows, audit, head, commits, mirror, now, faults, pc, call, loc,
                 last, job, hist>>

\* The tasks of p that have started and not yet returned.
InFlight(p) == {i \in DOMAIN tasks[p] : tasks[p][i].state = "lookup"}

\* results = await asyncio.gather(...): every task is done;
\* [r for r in results if r is not None].
GatherReturn(p) ==
  /\ pc[p] \in {"u_assoc", "a_assoc"}
  /\ tasks[p] # <<>>
  /\ \A i \in DOMAIN tasks[p] : tasks[p][i].state = "done"
  /\ LET returned == [i \in DOMAIN tasks[p] |-> tasks[p][i].result]
         kept == SelectSeq(returned, LAMBDA r : r # NoResult)
     IN loc' = [loc EXCEPT ![p].i = Len(call[p].assoc) + 1, ![p].results = kept,
                           ![p].dropped = Len(returned) - Len(kept)]
  /\ tasks' = [tasks EXCEPT ![p] = <<>>]
  /\ UNCHANGED <<tokens, users, rows, audit, head, commits, mirror, now, faults, pc, call, last,
                 job, hist>>

GatherNext ==
  \E p \in {"p1"} :
    \/ now < MaxGatherCalls /\ StartCallFrom(p, GatherInputs) /\ UNCHANGED hist
    \/ UploadPrimary(p)
    \/ UploadLatest(p)
    \/ AddRead(p)
    \/ GatherCreate(p)
    \/ \E i \in 1..MaxGatherTasks : TaskStart(p, i)
    \/ \E i \in 1..MaxGatherTasks : TaskLookup(p, i)
    \/ GatherReturn(p)
    \/ UploadChanged(p)
    \/ UploadSave(p)
    \/ AddSave(p)
    \/ LogAccess(p)

\* Requests with up to MaxGatherTasks associated files, one request at a
\* time, the stores available; the tasks of a gather interleave.
GatherSpec == InitAvailable /\ [][GatherNext]_vars

\* C39 (as claimed): at most upload_concurrency associated-file tasks of one
\* request are in flight at the same time; further tasks wait until a
\* running one finishes.
C39_InFlightBounded ==
  \A p \in Procs : Cardinality(InFlight(p)) <= UploadConcurrency

\* ------------------------------------------------------------ auto_destroy
\* Requests started, runs of auto_destroy and audit rows found at start-up in
\* one behaviour of CleanupSpec.
MaxCleanupCalls == 1
MaxCleanupRuns == 2
MaxOldLogs == 3

\* auto_destroy: cleanup_old_logs(current_date, 120).
RetentionDays == 120

\* cleanup_old_logs: batch_size (10000 in the code; the rows one DELETE ...
\* LIMIT removes at most).
BatchSize == 1

\* A run of auto_destroy: a run with the cutoff of its cleanup, the rowcount
\* of the last DELETE and whether cleanup_old_logs has returned.
NoCleanupRun == [cutoff |-> 0, deleted |-> 1, cleaned |-> FALSE] @@ NoRun

\* The database outlives the process. What a restarted service finds: audit
\* rows of earlier days, just before and at the cutoff of its first run, and
\* possibly an archived asset of the admin whose destroy date has passed.
OldStamps == {ImportDate - RetentionDays - 1, ImportDate - RetentionDays}

OldLog(ts) ==
  [username |-> SchedulerUser, asset_path |-> AssetPathOf("a.txt"), version_id |-> None,
   branch |-> "admin_space", operation |-> "list", timestamp |-> ts, success |-> TRUE,
   details |-> ""]

OldAsset ==
  [asset_path |-> AssetPathOf("a.txt"), version_id |-> 1, primary_filename |-> "a.txt",
   associated_filenames |-> <<>>, upload_date |-> ImportDate - 3 * DefaultTTL,
   archive_date |-> ImportDate - 2 * DefaultTTL, destroy_date |-> ImportDate - DefaultTTL,
   branch |-> "admin_space", status |-> "archived", checksum |-> Checksum("P")]

OldTree == [EmptyTree EXCEPT ![<<AssetPathOf("a.txt"), "a.txt">>] = "P"]

CleanupInit ==
  /\ users = InitUsersWithAdmin
  /\ rows \in {{}, {OldAsset}}
  /\ \E n \in 0..MaxOldLogs : audit \in [1..n -> {OldLog(ts) : ts \in OldStamps}]
  /\ head = [b \in AllBranches |-> IF b = "admin_space" THEN OldTree ELSE EmptyTree]
  /\ commits = <<[branch |-> "admin_space", tree |-> OldTree]>>
  /\ mirror = {}
  /\ now = 0
  /\ pc = [p \in Procs |-> "idle"]
  /\ call = [p \in Procs |-> NoCall]
  /\ loc = [p \in Procs |-> NoLoc]
  /\ last = [p \in Procs |-> NoCall]
  /\ job = NoJob
  /\ hist = <<>>
  /\ tokens = {}
  /\ tasks = [p \in Procs |-> <<>>]
  /\ faults = MaxFaults

\* Requests of the admin that write audit rows while auto_destroy runs.
CleanupInputs ==
  {[NoCall EXCEPT !.op = "retrieve", !.user = SchedulerUser, !.branch = "admin_space",
                  !.path = AssetPathOf("a.txt"), !.version = 1]}

\* run_auto_destroy, fired by the CronTrigger: manager.auto_destroy() without
\* an argument, so current_date is the default; cleanup_old_logs computes the
\* cutoff and enters its loop.
RunAutoDestroy ==
  /\ job.pc \in {"idle", "done"}
  /\ job.runs < MaxCleanupRuns
  /\ job' = [pc |-> "cleanup", runs |-> job.runs + 1,
             run |-> [NoCleanupRun EXCEPT !.date = ImportDate,
                                          !.cutoff = ImportDate - RetentionDays,
                                          !.at = now],
             prev |-> job.run]
  /\ UNCHANGED <<tasks, tokens, users, rows, audit, head, commits, mirror, now, faults, pc, call,
                 loc, last, hist>>

\* The sequence s without the elements at the indexes in S.
SeqMinus(s, S) ==
  LET F[i \in 0..Len(s)] ==
        IF i = 0 THEN <<>>
        ELSE IF i \in S THEN F[i - 1] ELSE Append(F[i - 1], s[i])
  IN F[Len(s)]

\* `while deleted:` the loop of cleanup_old_logs ends with a DELETE that
\* removed no row.
CleanupDone_AfterFirstBatch(deleted) == TRUE
CleanupDone(deleted) == deleted = 0

\* One round of the loop: DELETE FROM audit_log WHERE timestamp < cutoff
\* LIMIT batch_size (any batch_size of the matching rows), rowcount, commit.
\* After the round that deleted nothing, cleanup_old_logs returns.
CleanupBatch ==
  /\ job.pc = "cleanup"
  /\ LET old == {i \in DOMAIN audit : audit[i].timestamp < job.run.cutoff}
         n == IF Cardinality(old) < BatchSize THEN Cardinality(old) ELSE BatchSize
     IN \E S \in SUBSET old :
          /\ Cardinality(S) = n
          /\ audit' = SeqMinus(audit, S)
          /\ job' = [job EXCEPT !.run.deleted = n,
                                !.run.cleaned = CleanupDone(n),
                                !.pc = IF CleanupDone(n) THEN "select" ELSE "cleanup"]
  /\ UNCHANGED <<tasks, tokens, users, rows, head, commits, mirror, now, faults, pc, call, loc,
                 last, hist>>

\* Database.get_assets_to_destroy.
AssetsToDestroy(date) == {r \in rows : r.status = "archived" /\ r.destroy_date <= date}

\* assets = await self.db.get_assets_to_destroy(current_date); without any,
\* auto_destroy returns at once.
AutoDestroySelect ==
  /\ job.pc = "select"
  /\ LET due == AssetsToDestroy(job.run.date)
     IN job' = [job EXCEPT !.pc = IF due = {} THEN "done" ELSE "gather",
                           !.run.due = due, !.run.todo = due, !.run.before = rows]
  /\ UNCHANGED <<tasks, tokens, users, rows, audit, head, commits, mirror, now, faults, pc, call,
                 loc, last, hist>>

\* safe_destroy(asset): destroy("admin", asset.branch, asset.asset_path,
\* asset.version_id) starts on a free coroutine with its _check_permission.
DestroyTask(p) ==
  /\ job.pc = "gather"
  /\ p \notin job.run.running
  /\ pc[p] \in {"idle", "done"}
  /\ \E r \in job.run.todo :
       LET c == [NoCall EXCEPT !.op = "destroy", !.user = SchedulerUser, !.branch = r.branch,
                               !.path = r.asset_path, !.version = r.version_id]
       IN /\ job' = [job EXCEPT !.run.todo = @ \ {r}, !.run.running = @ \cup {p}]
          /\ call' = [call EXCEPT ![p] = c]
          /\ IF CheckPermission(c.user, c.branch, RequiredPermission(c.op)) # 0
               THEN /\ pc' = [pc EXCEPT ![p] = "done"]
                    /\ loc' = [loc EXCEPT ![p] =
                                 [NoLoc EXCEPT !.status = 403, !.error = "Forbidden"]]
               ELSE /\ pc' = [pc EXCEPT ![p] = FirstStep(c.op)]
                    /\ loc' = [loc EXCEPT ![p] = NoLoc]
  /\ last' = [last EXCEPT ![p] = NoCall]
  /\ UNCHANGED <<tasks, tokens, users, rows, audit, head, commits, mirror, now, faults, hist>>

\* asyncio.gather receives the result of a task: the destroyed record, or
\* None when safe_destroy caught an exception.
DestroyCollect(p) ==
  /\ job.pc = "gather"
  /\ p \in job.run.running
  /\ pc[p] = "done"
  /\ job' = [job EXCEPT !.run.running = @ \ {p},
                        !.run.archived = IF loc[p].status = 200
                                           THEN @ \cup {loc[p].ret} ELSE @]
  /\ UNCHANGED <<tasks, tokens, users, rows, audit, head, commits, mirror, now, faults, pc, call,
                 loc, last, hist>>

\* Every task has returned: auto_destroy returns the destroyed records.
AutoDestroyEnd ==
  /\ job.pc = "gather"
  /\ job.run.todo = {}
  /\ job.run.running = {}
  /\ job' = [job EXCEPT !.pc = "done"]
  /\ UNCHANGED <<tasks, tokens, users, rows, audit, head, commits, mirror, now, faults, pc, call,
                 loc, last, hist>>

CleanupNext ==
  \/ RunAutoDestroy
  \/ CleanupBatch
  \/ AutoDestroySelect
  \/ AutoDestroyEnd
  \/ \E p \in Procs :
       \/ /\ now < MaxCleanupCalls
          /\ FirstFree(p)
          /\ p \notin job.run.running
          /\ StartCallFrom(p, CleanupInputs)
          /\ UNCHANGED hist
       \/ DestroyTask(p)
       \/ DestroyCollect(p)
       \/ RetrieveRead(p)
       \/ LogAccess(p)
       \/ DestroyRead(p)
       \/ DestroyHead(p)
       \/ DestroyDelete(p)
       \/ DestroyMirror(p)

\* Runs of auto_destroy on a restarted service, interleaved with a request;
\* the loop of cleanup_old_logs is not starved by the event loop.
CleanupSpec == CleanupInit /\ [][CleanupNext]_vars /\ WF_vars(CleanupBatch)

\* C40: cleanup_old_logs terminates; each of its rounds keeps every audit
\* row stamped at or after the cutoff (current_date minus days), and when it
\* returns no audit row stamped before the cutoff remains; auto_destroy
\* starts destroying assets only after cleanup_old_logs has returned.
C40_CleanupThenDestroy ==
  /\ [][/\ (job.pc = "cleanup" /\ job' # job) =>
             LET kept(log) == SelectSeq(log, LAMBDA a : a.timestamp >= job.run.cutoff)
             IN /\ kept(audit') = kept(audit)
                /\ job'.pc # "cleanup" =>
                     \A i \in DOMAIN audit' : audit'[i].timestamp >= job.run.cutoff
        /\ \A p \in Procs :
             (p \in job'.run.running /\ p \notin job.run.running) =>
               /\ job.run.cleaned
               /\ \A i \in DOMAIN audit : audit[i].timestamp >= job.run.cutoff]_vars
  /\ (job.pc = "cleanup") ~> (job.pc # "cleanup")

\* C40 happens: a run of auto_destroy deleted audit rows in more than one
\* round, kept a row stamped at the cutoff, and then destroyed an asset.
C40_Witness ==
  /\ job.pc = "done"
  /\ job.runs = 1
  /\ job.run.cleaned
  /\ job.run.archived # {}
  /\ \E i \in DOMAIN audit : audit[i].timestamp = job.run.cutoff
  /\ \E i \in DOMAIN audit : audit[i].operation = "destroy" /\ audit[i].success

====
